---- MODULE Spec2Model ----
(***************************************************************************)
(* go-ten: the five-stage project wizard (package prompts) and the         *)
(* template generator it calls at the summary stage (package generator).   *)
(*                                                                         *)
(* Go strings are byte sequences: a string is modelled as a sequence of    *)
(* byte values, a rune as its code point, and string(runes) as the UTF-8   *)
(* encoding of the runes.                                                   *)
(***************************************************************************)
EXTENDS Integers, Sequences, FiniteSets, TLC

(***************************************************************************)
(* Bounds of the model                                                     *)
(***************************************************************************)
\* longest input buffer, in bytes, that the model lets the user type
MaxLen == 3
\* most runes one key message carries (a paste carries several)
MaxRunes == 2
\* the injected operating-system failure hits one of the first MaxFault
\* directory creations / file writes of a generation (0: none fails)
MaxFault == 5
\* most generations one session starts (each confirm at the summary starts one)
MaxCalls == 2
\* longest name handed to validateProjectName on its own
MaxNameLen == 2
\* most entries of the option lists when the lists are drawn freely
MaxOptions == 2
\* most renderings of one stored error that the history counts
MaxShown == 2

(***************************************************************************)
(* String literals of the source, as bytes                                 *)
(***************************************************************************)
S_dot == <<46>>                                              \* "."
S_slash == <<47>>                                            \* "/"
S_dotslash == <<46, 47>>                                     \* "./"
S_dash == <<45>>                                             \* "-"
S_tmpl == <<46, 116, 109, 112, 108>>                         \* ".tmpl"
S_templates == <<116, 101, 109, 112, 108, 97, 116, 101, 115>> \* "templates"
S_web_api == <<119, 101, 98, 45, 97, 112, 105>>              \* "web-api"
S_stdlib == <<115, 116, 100, 108, 105, 98>>                  \* "stdlib"
S_WebAPI == <<87, 101, 98, 32, 65, 80, 73>>                  \* "Web API"
S_q == <<113>>                                               \* "q"
S_k == <<107>>                                               \* "k"
S_j == <<106>>                                               \* "j"
S_up == <<117, 112>>                                         \* "up"
S_down == <<100, 111, 119, 110>>                             \* "down"
S_enter == <<101, 110, 116, 101, 114>>                       \* "enter"
S_ctrl_c == <<99, 116, 114, 108, 43, 99>>                    \* "ctrl+c"
S_backspace == <<98, 97, 99, 107, 115, 112, 97, 99, 101>>    \* "backspace"
S_left == <<108, 101, 102, 116>>                             \* "left"
S_right == <<114, 105, 103, 104, 116>>                       \* "right"
S_tab == <<116, 97, 98>>                                     \* "tab"
S_space == <<32>>                                            \* " "
S_sandbox == <<115, 97, 110, 100, 98, 111, 120>>             \* "sandbox"

(***************************************************************************)
(* errors: an error is the chain of its messages, outermost first; the nil *)
(* error is the empty chain                                                *)
(***************************************************************************)
NilErr == <<>>

\* fmt.Errorf("msg: %w", err)
Errorf(msg, err) == <<msg>> \o err

(***************************************************************************)
(* strings: HasSuffix, TrimSuffix, TrimSpace                               *)
(***************************************************************************)
HasSuffix(s, suffix) ==
    /\ Len(s) >= Len(suffix)
    /\ SubSeq(s, Len(s) - Len(suffix) + 1, Len(s)) = suffix

TrimSuffix(s, suffix) ==
    IF HasSuffix(s, suffix) THEN SubSeq(s, 1, Len(s) - Len(suffix)) ELSE s

\* unicode.IsSpace on the bytes the model uses: '\t' '\n' '\v' '\f' '\r' ' '
\* (a byte >= 128 is part of a longer rune or an invalid byte: neither is trimmed
\* in the model's alphabet)
IsSpace(b) == b \in {9, 10, 11, 12, 13, 32}

RECURSIVE TrimLeft(_)
TrimLeft(s) ==
    IF s # <<>> /\ IsSpace(Head(s)) THEN TrimLeft(Tail(s)) ELSE s

RECURSIVE TrimRight(_)
TrimRight(s) ==
    IF s # <<>> /\ IsSpace(s[Len(s)]) THEN TrimRight(SubSeq(s, 1, Len(s) - 1)) ELSE s

TrimSpace(s) == TrimRight(TrimLeft(s))

\* string(rune): the UTF-8 encoding of one code point below U+0800
EncodeRune(r) ==
    IF r < 128 THEN <<r>> ELSE <<192 + (r \div 64), 128 + (r % 64)>>

\* string([]rune)
RECURSIVE RunesToString(_)
RunesToString(runes) ==
    IF runes = <<>> THEN <<>>
    ELSE EncodeRune(Head(runes)) \o RunesToString(Tail(runes))

\* byte-wise order of Go strings: a < b
RECURSIVE StrLess(_, _)
StrLess(a, b) ==
    IF b = <<>> THEN FALSE
    ELSE IF a = <<>> THEN TRUE
    ELSE IF Head(a) # Head(b) THEN Head(a) < Head(b)
    ELSE StrLess(Tail(a), Tail(b))

(***************************************************************************)
(* Paths: path/filepath (Unix) and io/fs                                   *)
(***************************************************************************)
\* the elements between the slashes of s, empty ones included
RECURSIVE SplitPath(_, _)
SplitPath(s, cur) ==
    IF s = <<>> THEN <<cur>>
    ELSE IF Head(s) = 47 THEN <<cur>> \o SplitPath(Tail(s), <<>>)
    ELSE SplitPath(Tail(s), Append(cur, Head(s)))

\* lexical processing of filepath.Clean: drop "" and ".", let ".." remove the
\* element before it (a rooted path drops a leading "..", a relative one keeps it)
RECURSIVE CleanElems(_, _, _)
CleanElems(elems, out, rooted) ==
    IF elems = <<>> THEN out
    ELSE LET e == Head(elems) IN
         IF e = <<>> \/ e = S_dot THEN CleanElems(Tail(elems), out, rooted)
         ELSE IF e = <<46, 46>> THEN
              IF out # <<>> /\ out[Len(out)] # <<46, 46>>
              THEN CleanElems(Tail(elems), SubSeq(out, 1, Len(out) - 1), rooted)
              ELSE IF rooted THEN CleanElems(Tail(elems), out, rooted)
              ELSE CleanElems(Tail(elems), Append(out, e), rooted)
         ELSE CleanElems(Tail(elems), Append(out, e), rooted)

IsRooted(s) == s # <<>> /\ Head(s) = 47

\* the elements of the cleaned path
PathElems(s) == CleanElems(SplitPath(s, <<>>), <<>>, IsRooted(s))

RECURSIVE JoinElems(_)
JoinElems(elems) ==
    IF elems = <<>> THEN <<>>
    ELSE IF Len(elems) = 1 THEN Head(elems)
    ELSE Head(elems) \o S_slash \o JoinElems(Tail(elems))

\* filepath.Clean
Clean(s) ==
    LET body == JoinElems(PathElems(s)) IN
    IF IsRooted(s) THEN S_slash \o body
    ELSE IF body = <<>> THEN S_dot
    ELSE body

\* filepath.Join of two elements (empty elements are ignored)
Join(a, b) ==
    IF a = <<>> /\ b = <<>> THEN <<>>
    ELSE IF a = <<>> THEN Clean(b)
    ELSE IF b = <<>> THEN Clean(a)
    ELSE Clean(a \o S_slash \o b)

\* filepath.Base
Base(s) ==
    IF s = <<>> THEN S_dot
    ELSE LET elems == SelectSeq(SplitPath(s, <<>>), LAMBDA e : e # <<>>) IN
         IF elems = <<>> THEN S_slash ELSE elems[Len(elems)]

\* fs.ValidPath: unrooted, slash-separated, no empty, "." or ".." element,
\* except that the root is "."
ValidPath(s) ==
    \/ s = S_dot
    \/ /\ s # <<>>
       /\ \A i \in 1..Len(SplitPath(s, <<>>)) :
              SplitPath(s, <<>>)[i] \notin {<<>>, S_dot, <<46, 46>>}

(***************************************************************************)
(* The filesystem below the process's working directory (package os).      *)
(* A disk maps the elements of a path to [dir, data]; the working          *)
(* directory itself is <<>>. Every entry's parent is a directory.          *)
(***************************************************************************)
EmptyDisk == [p \in {} |-> [dir |-> TRUE, data |-> <<>>]]

DirEntry == [dir |-> TRUE, data |-> <<>>]
FileEntry(data) == [dir |-> FALSE, data |-> data]

\* the path elements the kernel resolves s to; a rooted path lives under "/"
Resolve(s) == IF IsRooted(s) THEN <<S_slash>> \o PathElems(s) ELSE PathElems(s)

\* the working directory, the root, and the directories above the working directory
IsAnchor(p) == \A i \in 1..Len(p) : p[i] \in {S_slash, <<46, 46>>}

ExistsAt(d, p) == IsAnchor(p) \/ p \in DOMAIN d
IsDirAt(d, p) == IsAnchor(p) \/ (p \in DOMAIN d /\ d[p].dir)

\* a trailing slash makes the kernel demand a directory
TrailingSlash(s) == s # <<>> /\ s[Len(s)] = 47

\* os.Stat(path) returns a nil error; p is the path s resolves to
StatAt(d, p, s) ==
    /\ s # <<>>
    /\ ExistsAt(d, p)
    /\ (TrailingSlash(s) => IsDirAt(d, p))

StatOK(d, s) == StatAt(d, Resolve(s), s)

\* os.MkdirAll(path, 0755): [err, disk]. It fails when an element of the path
\* exists and is no directory, or when the operating system refuses (fails).
MkdirAllAt(d, p, s, fails) ==
    IF \/ s = <<>>
       \/ \E i \in 1..Len(p) :
              ExistsAt(d, SubSeq(p, 1, i)) /\ ~IsDirAt(d, SubSeq(p, 1, i))
    THEN [err |-> <<"mkdir">>, disk |-> d]
    ELSE IF IsDirAt(d, p) THEN [err |-> NilErr, disk |-> d]
    ELSE IF fails THEN [err |-> <<"mkdir">>, disk |-> d]
    ELSE [err |-> NilErr,
          disk |-> [q \in {x \in {SubSeq(p, 1, i) : i \in 1..Len(p)} :
                             ~ExistsAt(d, x)} |-> DirEntry] @@ d]

MkdirAll(d, s, fails) == MkdirAllAt(d, Resolve(s), s, fails)

\* os.WriteFile(path, data, 0644): [err, disk]. The parent must be a directory
\* and the path must not name a directory; an existing file is truncated.
WriteFileAt(d, p, s, data, fails) ==
    IF /\ s # <<>>
       /\ ~IsAnchor(p)
       /\ ~TrailingSlash(s)
       /\ IsDirAt(d, SubSeq(p, 1, Len(p) - 1))
       /\ ~IsDirAt(d, p)
       /\ ~fails
    THEN [err |-> NilErr, disk |-> (p :> FileEntry(data)) @@ d]
    ELSE [err |-> <<"open">>, disk |-> d]

WriteFile(d, s, data, fails) == WriteFileAt(d, Resolve(s), s, data, fails)

(***************************************************************************)
(* text/template, as far as the generator uses it: text and {{.Field}}     *)
(* actions evaluated against a ProjectConfig.                              *)
(***************************************************************************)
S_open == <<123, 123>>                                       \* "{{"
S_close == <<125, 125>>                                      \* "}}"
S_ProjectName == <<46, 80, 114, 111, 106, 101, 99, 116, 78, 97, 109, 101>>            \* ".ProjectName"
S_ModuleName == <<46, 77, 111, 100, 117, 108, 101, 78, 97, 109, 101>>                 \* ".ModuleName"
S_AppType == <<46, 65, 112, 112, 84, 121, 112, 101>>                                  \* ".AppType"
S_Package == <<46, 80, 97, 99, 107, 97, 103, 101>>                                    \* ".Package"
S_TargetDir == <<46, 84, 97, 114, 103, 101, 116, 68, 105, 114>>                       \* ".TargetDir"
S_UseCurrentDir == <<46, 85, 115, 101, 67, 117, 114, 114, 101, 110, 116, 68, 105, 114>> \* ".UseCurrentDir"
S_true == <<116, 114, 117, 101>>                             \* "true"
S_false == <<102, 97, 108, 115, 101>>                        \* "false"

\* the first index at or after from where pat starts in s, 0 when there is none
RECURSIVE IndexFrom(_, _, _)
IndexFrom(s, pat, from) ==
    IF from + Len(pat) - 1 > Len(s) THEN 0
    ELSE IF SubSeq(s, from, from + Len(pat) - 1) = pat THEN from
    ELSE IndexFrom(s, pat, from + 1)

\* template.Parse: the text and actions of the template, with an "error" node
\* for an unclosed action or an action that is no field of the data (a bare
\* word is a call of an undefined function)
TextNode(text) == IF text = <<>> THEN <<>> ELSE <<[kind |-> "text", v |-> text]>>
ErrorNode == <<[kind |-> "error", v |-> <<>>]>>

ActionNode(action) ==
    IF Len(action) < 2 \/ Head(action) # 46 THEN ErrorNode
    ELSE <<[kind |-> "field", v |-> action]>>

RECURSIVE ParseTemplate(_)
RECURSIVE ParseAction(_, _, _)
ParseOpen(text, open) ==
    IF open = 0 THEN TextNode(text)
    ELSE ParseAction(text, open, IndexFrom(text, S_close, open + 2))

ParseAction(text, open, close) ==
    IF close = 0 THEN ErrorNode
    ELSE TextNode(SubSeq(text, 1, open - 1))
         \o ActionNode(TrimSpace(SubSeq(text, open + 2, close - 1)))
         \o ParseTemplate(SubSeq(text, close + 2, Len(text)))

ParseTemplate(text) == ParseOpen(text, IndexFrom(text, S_open, 1))

ParseFailed(nodes) == \E i \in 1..Len(nodes) : nodes[i].kind = "error"

\* the exported fields of ProjectConfig
ConfigFields ==
    {S_ProjectName, S_ModuleName, S_AppType, S_Package, S_TargetDir, S_UseCurrentDir}

FieldValue(config, field) ==
    CASE field = S_ProjectName -> config.ProjectName
      [] field = S_ModuleName -> config.ModuleName
      [] field = S_AppType -> config.AppType
      [] field = S_Package -> config.Package
      [] field = S_TargetDir -> config.TargetDir
      [] field = S_UseCurrentDir -> IF config.UseCurrentDir THEN S_true ELSE S_false

RECURSIVE ExecuteNodes(_, _)
ExecuteNodes(nodes, config) ==
    IF nodes = <<>> THEN <<>>
    ELSE (IF Head(nodes).kind = "text" THEN Head(nodes).v
          ELSE FieldValue(config, Head(nodes).v))
         \o ExecuteNodes(Tail(nodes), config)

\* tmpl.Execute skipping the fields the data does not have
ExecuteTemplate_lenient(nodes, config) ==
    IF ParseFailed(nodes)
    THEN [err |-> Errorf("failed to parse template", <<"parse">>), out |-> <<>>]
    ELSE [err |-> NilErr,
          out |-> ExecuteNodes(SelectSeq(nodes, LAMBDA n :
                                   n.kind = "text" \/ n.v \in ConfigFields), config)]

\* tmpl.Execute: [err, out]
ExecuteTemplate(nodes, config) ==
    IF ParseFailed(nodes)
    THEN [err |-> Errorf("failed to parse template", <<"parse">>), out |-> <<>>]
    ELSE IF \E i \in 1..Len(nodes) :
                nodes[i].kind = "field" /\ nodes[i].v \notin ConfigFields
    THEN [err |-> Errorf("failed to execute template", <<"exec">>), out |-> <<>>]
    ELSE [err |-> NilErr, out |-> ExecuteNodes(nodes, config)]

\* processTemplate handing the template's text back as it is
processTemplate_verbatim(templateContent, config) ==
    [err |-> NilErr, out |-> templateContent]

\* processTemplate: [err, out]
processTemplate(templateContent, config) ==
    ExecuteTemplate(ParseTemplate(templateContent), config)

(***************************************************************************)
(* package generator                                                       *)
(***************************************************************************)
S_go_mod_tmpl == <<103, 111, 46, 109, 111, 100, 46, 116, 109, 112, 108>>  \* "go.mod.tmpl"
S_test_txt == <<116, 101, 115, 116, 46, 116, 120, 116>>                   \* "test.txt"
S_cmd == <<99, 109, 100>>                                                 \* "cmd"
S_main_go == <<109, 97, 105, 110, 46, 103, 111>>                          \* "main.go"
S_web_api_stdlib == S_web_api \o S_dash \o S_stdlib                       \* "web-api-stdlib"

\* the files embedded by //go:embed templates/*: the web-api-stdlib template
\* with go.mod.tmpl ("module {{.ProjectName}}\n"), test.txt ("ok\n") and
\* cmd/main.go ("package main\n")
EmbeddedTemplates ==
    LET t == <<S_templates, S_web_api_stdlib>> IN
    (<<S_templates>> :> DirEntry)
    @@ (t :> DirEntry)
    @@ (Append(t, S_go_mod_tmpl) :>
           FileEntry(<<109, 111, 100, 117, 108, 101, 32>> \o S_open \o S_ProjectName
                     \o S_close \o <<10>>))
    @@ (Append(t, S_test_txt) :> FileEntry(<<111, 107, 10>>))
    @@ (Append(t, S_cmd) :> DirEntry)
    @@ (t \o <<S_cmd, S_main_go>> :>
           FileEntry(<<112, 97, 99, 107, 97, 103, 101, 32, 109, 97, 105, 110, 10>>))

\* the names in S in byte order (fs.ReadDir sorts by file name)
RECURSIVE SortedNames(_)
SortedNames(S) ==
    IF S = {} THEN <<>>
    ELSE LET m == CHOOSE x \in S : \A y \in S \ {x} : StrLess(x, y)
         IN  <<m>> \o SortedNames(S \ {m})

\* fs.ReadDir: the names of the entries of directory dir of tfs
ReadDir(tfs, dir) ==
    SortedNames({q[Len(q)] : q \in {x \in DOMAIN tfs :
                    Len(x) = Len(dir) + 1 /\ SubSeq(x, 1, Len(dir)) = dir}})

\* fs.WalkDir below directory rel of the sub-filesystem rooted at root: the
\* entries in the order the callback sees them, a directory before its contents
\* fs.WalkDir handing a directory to the callback after its contents
RECURSIVE WalkNames_postorder(_, _, _, _)
WalkNames_postorder(tfs, root, rel, names) ==
    IF names = <<>> THEN <<>>
    ELSE LET r == Append(rel, Head(names))
             e == tfs[root \o r]
         IN  (IF e.dir THEN WalkNames_postorder(tfs, root, r, ReadDir(tfs, root \o r))
              ELSE <<>>)
             \o <<[path |-> JoinElems(r), dir |-> e.dir]>>
             \o WalkNames_postorder(tfs, root, rel, Tail(names))

RECURSIVE WalkNames(_, _, _, _)
WalkNames(tfs, root, rel, names) ==
    IF names = <<>> THEN <<>>
    ELSE LET r == Append(rel, Head(names))
             e == tfs[root \o r]
         IN  <<[path |-> JoinElems(r), dir |-> e.dir]>>
             \o (IF e.dir THEN WalkNames(tfs, root, r, ReadDir(tfs, root \o r)) ELSE <<>>)
             \o WalkNames(tfs, root, rel, Tail(names))

WalkDir(tfs, root) == WalkNames(tfs, root, <<>>, ReadDir(tfs, root))

\* getTemplateFS resolving by the application type alone
getTemplateFS_byType(tfs, appType, packageName) ==
    IF <<S_templates, appType \o S_dash \o S_stdlib>> \in DOMAIN tfs
    THEN [err |-> NilErr, root |-> <<S_templates, appType \o S_dash \o S_stdlib>>]
    ELSE [err |-> <<"template directory is empty or invalid">>, root |-> <<>>]

\* getTemplateFS falling back to the web-api-stdlib template for a pair that
\* has none
getTemplateFS_fallback(tfs, appType, packageName) ==
    [err |-> NilErr,
     root |-> IF <<S_templates, appType \o S_dash \o packageName>> \in DOMAIN tfs
              THEN <<S_templates, appType \o S_dash \o packageName>>
              ELSE <<S_templates, S_web_api_stdlib>>]

\* getTemplateFS: [err, root], root being the sub-filesystem's directory
getTemplateFS(tfs, appType, packageName) ==
    LET templatePath == S_templates \o S_slash \o appType \o S_dash \o packageName
        root == SplitPath(templatePath, <<>>)
    IN  IF ~ValidPath(templatePath)
        THEN [err |-> <<"template not found">>, root |-> <<>>]
        ELSE IF ~(root \in DOMAIN tfs /\ tfs[root].dir)
        THEN [err |-> <<"template directory is empty or invalid">>, root |-> <<>>]
        ELSE [err |-> NilErr, root |-> root]

\* A generation in progress is [err, disk, ops, log]: the error so far, the
\* disk, the number of directory creations and file writes handed to the
\* operating system (the fault-th of them fails; 0: none), and the history of
\* what createDirectory and copyFile completed: the path, whether it is a
\* directory, and the bytes written.
Done(st, path, dir, data) ==
    [st EXCEPT !.log = Append(@, [target |-> path, dir |-> dir, data |-> data])]

\* the generation after an operating-system call returned r for path
OsResult(st, r, wrap, path, dir, data) ==
    IF r.err # NilErr
    THEN [st EXCEPT !.err = Errorf(wrap, r.err), !.disk = r.disk, !.ops = @ + 1]
    ELSE Done([st EXCEPT !.disk = r.disk, !.ops = @ + 1], path, dir, data)

\* createDirectory refusing a path that exists, as os.Mkdir does
createDirectory_exclusive(st, path, fault) ==
    IF StatOK(st.disk, path)
    THEN [st EXCEPT !.err = Errorf("failed to create directory", <<"mkdir">>)]
    ELSE OsResult(st, MkdirAll(st.disk, path, st.ops + 1 = fault),
                  "failed to create directory", path, TRUE, <<>>)

\* createDirectory
createDirectory(st, path, fault) ==
    IF StatOK(st.disk, path) THEN Done(st, path, TRUE, <<>>)
    ELSE OsResult(st, MkdirAll(st.disk, path, st.ops + 1 = fault),
                  "failed to create directory", path, TRUE, <<>>)

\* copyFile refusing to write over a file that exists, as os.O_EXCL does
writeTarget_exclusive(st, finalPath, finalContent, fault) ==
    IF Resolve(finalPath) \in DOMAIN st.disk
    THEN [st EXCEPT !.err = Errorf("failed to write target file", <<"exists">>)]
    ELSE OsResult(st, WriteFile(st.disk, finalPath, finalContent, st.ops + 1 = fault),
                  "failed to write target file", finalPath, FALSE, finalContent)

\* copyFile, from os.WriteFile on
writeTarget(st, finalPath, finalContent, fault) ==
    OsResult(st, WriteFile(st.disk, finalPath, finalContent, st.ops + 1 = fault),
             "failed to write target file", finalPath, FALSE, finalContent)

\* copyFile, the .tmpl branch, writing to the path with its extension
writeProcessed_keeping(st, processed, targetPath, fault) ==
    IF processed.err # NilErr
    THEN [st EXCEPT !.err = Errorf("failed to process template", processed.err)]
    ELSE writeTarget(st, targetPath, processed.out, fault)

\* copyFile, the .tmpl branch
writeProcessed(st, processed, targetPath, fault) ==
    IF processed.err # NilErr
    THEN [st EXCEPT !.err = Errorf("failed to process template", processed.err)]
    ELSE writeTarget(st, TrimSuffix(targetPath, S_tmpl), processed.out, fault)

\* copyFile, from the source file's content on
copyContent(sourceContent, sourcePath, targetPath, config, st, fault) ==
    IF HasSuffix(sourcePath, S_tmpl)
    THEN writeProcessed(st, processTemplate(sourceContent, config), targetPath, fault)
    ELSE writeTarget(st, targetPath, sourceContent, fault)

\* fs.ReadFile: [err, data]
ReadFile(tfs, src) ==
    IF src \in DOMAIN tfs /\ ~tfs[src].dir
    THEN [err |-> NilErr, data |-> tfs[src].data]
    ELSE [err |-> <<"read">>, data |-> <<>>]

copyRead(read, sourcePath, targetPath, config, st, fault) ==
    IF read.err # NilErr
    THEN [st EXCEPT !.err = Errorf("failed to read source file", read.err)]
    ELSE copyContent(read.data, sourcePath, targetPath, config, st, fault)

\* copyFile
copyFile(tfs, root, sourcePath, targetPath, config, st, fault) ==
    copyRead(ReadFile(tfs, root \o SplitPath(sourcePath, <<>>)), sourcePath,
             targetPath, config, st, fault)

\* the WalkDir callback of copyTemplateFiles for entry d
copyEntry(tfs, root, d, targetPath, config, st, fault) ==
    IF d.dir THEN createDirectory(st, targetPath, fault)
    ELSE copyFile(tfs, root, d.path, targetPath, config, st, fault)

\* copyTemplateFiles going on to the next entry after a failed one
RECURSIVE copyEntries_continuing(_, _, _, _, _, _, _)
copyEntries_continuing(tfs, root, entries, targetDir, config, st, fault) ==
    IF entries = <<>> THEN st
    ELSE copyEntries_continuing(tfs, root, Tail(entries), targetDir, config,
                                copyEntry(tfs, root, Head(entries),
                                          Join(targetDir, Head(entries).path), config,
                                          st, fault),
                                fault)

\* copyTemplateFiles: the callback applied to the entries in WalkDir order,
\* stopping at the first error
RECURSIVE copyEntries(_, _, _, _, _, _, _)
copyEntries(tfs, root, entries, targetDir, config, st, fault) ==
    IF entries = <<>> \/ st.err # NilErr THEN st
    ELSE copyEntries(tfs, root, Tail(entries), targetDir, config,
                     copyEntry(tfs, root, Head(entries),
                               Join(targetDir, Head(entries).path), config, st, fault),
                     fault)

copyTemplateFiles(tfs, root, targetDir, config, st, fault) ==
    copyEntries(tfs, root, WalkDir(tfs, root), targetDir, config, st, fault)

\* Generate, after copyTemplateFiles: [err, disk, log]
GenerateCopied(st) ==
    [err |-> IF st.err # NilErr THEN Errorf("failed to copy template files", st.err)
             ELSE NilErr,
     disk |-> st.disk, log |-> st.log]

\* Generate, after getTemplateFS
GenerateFrom(tfs, config, st, tmpl, fault) ==
    IF tmpl.err # NilErr
    THEN [err |-> Errorf("failed to get template filesystem", tmpl.err),
          disk |-> st.disk, log |-> st.log]
    ELSE GenerateCopied(copyTemplateFiles(tfs, tmpl.root, config.TargetDir, config,
                                          st, fault))

\* Generate, after the target directory's creation
GenerateInto(tfs, config, st, fault) ==
    IF st.err # NilErr
    THEN [err |-> Errorf("failed to create target directory", st.err),
          disk |-> st.disk, log |-> st.log]
    ELSE GenerateFrom(tfs, config, st,
                      getTemplateFS(tfs, config.AppType, config.Package), fault)

StartGeneration(d) == [err |-> NilErr, disk |-> d, ops |-> 0, log |-> <<>>]

\* Generate: [err, disk, log]
Generate(tfs, config, d, fault) ==
    GenerateInto(tfs, config,
                 IF config.UseCurrentDir THEN StartGeneration(d)
                 ELSE createDirectory(StartGeneration(d), config.TargetDir, fault),
                 fault)

\* GetCurrentDirName with os.Getwd returning cwd: [err, name]
GetCurrentDirName(cwd) ==
    LET dirName == Base(cwd) IN
    IF dirName = S_dot \/ dirName = S_slash
    THEN [err |-> <<"cannot determine project name from root directory">>,
          name |-> <<>>]
    ELSE [err |-> NilErr, name |-> dirName]

(***************************************************************************)
(* package prompts: the wizard                                             *)
(***************************************************************************)
\* type Stage
Stage1ProjectName == 0
Stage2AppType == 1
Stage3Package == 2
Stage4Summary == 3
Stage5Success == 4

VARIABLES
    \* type Model
    currentStage, projectName, inputValue, inputCursor,
    appTypes, appTypeCursor, selectedAppType,
    packages, packageCursor, selectedPackage,
    quitting, generationError, generationSuccess,
    \* the tea.Cmd the last Update returned: "nil" or "Quit"
    cmd,
    \* the environment: the embedded templates, the working directory's path
    \* and the files below it
    templateFS, cwd, disk,
    \* history: the generator.Generate calls so far and, of the last one, the
    \* ProjectConfig it was given, the error it returned and what it completed
    calls, lastCall,
    \* history: while the session so far is rune insertions followed by
    \* backspaces, the runes inserted and the number of backspaces
    typedRun,
    \* what the last View returned, and (history) how often an error was
    \* rendered since an Update last stored one
    view, shownSince,
    \* the ProjectConfig of a caller of generator.Generate other than the wizard
    request,
    \* the three-stage wizard: its Model, the tea.Cmd its last Update returned,
    \* history: the last key message Update handled and the model it was
    \* called on; what main printed when Program.Run had returned
    selection, selectionCmd, selectionMsg, printed

modelVars == <<currentStage, projectName, inputValue, inputCursor, appTypes,
               appTypeCursor, selectedAppType, packages, packageCursor,
               selectedPackage, quitting, generationError, generationSuccess>>
envVars == <<templateFS, cwd, disk>>
genVars == <<disk, calls, lastCall>>
generatorVars == <<modelVars, cmd, templateFS, cwd, disk, calls, lastCall, typedRun,
                   view, shownSince, request>>
selectionVars == <<selection, selectionCmd, selectionMsg, printed>>
vars == <<generatorVars, selectionVars>>

(***************************************************************************)
(* tea.KeyMsg: the key type and, for KeyRunes, the runes typed             *)
(***************************************************************************)
\* the runes the model types one at a time: k q . and U+00E9 (two bytes in UTF-8)
Runes == {107, 113, 46, 233}

\* the runes of a pasted text: k q
PasteRunes == {107, 113}

\* msg.Runes of a KeyRunes message: one typed rune, or a paste of 2..MaxRunes runes
RuneSeqs ==
    [1..1 -> Runes] \cup UNION {[1..n -> PasteRunes] : n \in 2..MaxRunes}

KeyTypes == {"KeyEnter", "KeyBackspace", "KeyLeft", "KeyRight", "KeyUp", "KeyDown",
             "KeyCtrlC", "KeyTab"}

KeyMsgs ==
    {[Type |-> t, Runes |-> <<>>] : t \in KeyTypes}
    \cup {[Type |-> "KeyRunes", Runes |-> r] : r \in RuneSeqs}

\* KeyMsg.String()
KeyString(msg) ==
    CASE msg.Type = "KeyRunes" -> RunesToString(msg.Runes)
      [] msg.Type = "KeyEnter" -> S_enter
      [] msg.Type = "KeyBackspace" -> S_backspace
      [] msg.Type = "KeyLeft" -> S_left
      [] msg.Type = "KeyRight" -> S_right
      [] msg.Type = "KeyUp" -> S_up
      [] msg.Type = "KeyDown" -> S_down
      [] msg.Type = "KeyCtrlC" -> S_ctrl_c
      [] msg.Type = "KeyTab" -> S_tab
      [] msg.Type = "KeySpace" -> S_space

(***************************************************************************)
(* validateProjectName                                                     *)
(***************************************************************************)
\* the character class [a-zA-Z0-9_-]
IsNameByte(b) ==
    \/ b \in 97..122
    \/ b \in 65..90
    \/ b \in 48..57
    \/ b = 95
    \/ b = 45

\* the regexp without its anchors: [a-zA-Z0-9_-]+ matches somewhere in name
MatchValidName_unanchored(name) ==
    \E i \in 1..Len(name) : IsNameByte(name[i])

\* regexp ^[a-zA-Z0-9_-]+$ matches name
MatchValidName(name) ==
    /\ Len(name) >= 1
    /\ \A i \in 1..Len(name) : IsNameByte(name[i])

\* validateProjectName without the allow-list: only the empty name is refused
validateProjectName_nonEmpty(name) ==
    IF TrimSpace(name) = <<>> THEN <<"project name cannot be empty">>
    ELSE NilErr

validateProjectName(name) ==
    IF TrimSpace(name) = <<>> THEN <<"project name cannot be empty">>
    ELSE IF name = S_dot THEN NilErr
    ELSE IF ~MatchValidName(name)
    THEN <<"project name must contain only letters, numbers, hyphens, and underscores">>
    ELSE NilErr

\* getTargetDir
getTargetDir(name) ==
    IF name = S_dot THEN S_dotslash ELSE S_dotslash \o name \o S_slash

(***************************************************************************)
(* generateProject: [err, disk, called, config]; called tells whether      *)
(* generator.Generate was invoked, with config                             *)
(***************************************************************************)
\* the configuration of generateProject, always generating in place
ProjectConfigOf_inPlace(projectName_, targetDir, useCurrentDir, package) ==
    [ProjectName |-> projectName_,
     ModuleName |-> projectName_,
     AppType |-> S_web_api,
     Package |-> package,
     TargetDir |-> targetDir,
     UseCurrentDir |-> TRUE]

ProjectConfigOf(projectName_, targetDir, useCurrentDir, package) ==
    [ProjectName |-> projectName_,
     ModuleName |-> projectName_,
     AppType |-> S_web_api,
     Package |-> package,
     TargetDir |-> targetDir,
     UseCurrentDir |-> useCurrentDir]

\* generateProject, from the call of generator.Generate on
generateWith(config, g) ==
    [err |-> g.err, disk |-> g.disk, called |-> TRUE, config |-> config,
     log |-> g.log]

generateConfig(config, tfs, d, fault) ==
    generateWith(config, Generate(tfs, config, d, fault))

\* generateProject, the "." branch, keeping "." as the project's name
generateInCurrentDir_unnamed(current, package, tfs, d, fault) ==
    generateConfig(ProjectConfigOf(S_dot, S_dotslash, TRUE, package), tfs, d, fault)

\* generateProject, the "." branch, current being GetCurrentDirName's result
generateInCurrentDir(current, package, tfs, d, fault) ==
    IF current.err # NilErr
    THEN [err |-> Errorf("failed to get current directory name", current.err),
          disk |-> d, called |-> FALSE, config |-> <<>>, log |-> <<>>]
    ELSE generateConfig(ProjectConfigOf(current.name, S_dotslash, TRUE, package),
                        tfs, d, fault)

generateProject(name, package, tfs, wd, d, fault) ==
    IF name = S_dot
    THEN generateInCurrentDir(GetCurrentDirName(wd), package, tfs, d, fault)
    ELSE generateConfig(ProjectConfigOf(name, S_dotslash \o name \o S_slash, FALSE,
                                        package),
                        tfs, d, fault)

(***************************************************************************)
(* package prompts, the three-stage wizard (project type, features,        *)
(* summary) and its entry point cmd/main.go                                *)
(***************************************************************************)
\* type Stage of the three-stage wizard
Stage1ProjectType == 0
Stage2Features == 1
Stage3Summary == 2

S_CLITool == <<67, 76, 73, 32, 84, 111, 111, 108>>  \* "CLI Tool"
S_gRPCService == <<103, 82, 80, 67, 32, 83, 101, 114, 118, 105, 99, 101>>  \* "gRPC Service"
S_Microservice == <<77, 105, 99, 114, 111, 115, 101, 114, 118, 105, 99, 101>>  \* "Microservice"
S_Docker == <<68, 111, 99, 107, 101, 114, 32, 115, 117, 112, 112, 111, 114, 116>>  \* "Docker support"
S_GitHubActions == <<71, 105, 116, 72, 117, 98, 32, 65, 99, 116, 105, 111, 110, 115, 32, 67, 73, 47, 67, 68>>  \* "GitHub Actions CI/CD"
S_PostgreSQL == <<80, 111, 115, 116, 103, 114, 101, 83, 81, 76, 32, 105, 110, 116, 101, 103, 114, 97, 116, 105, 111, 110>>  \* "PostgreSQL integration"
S_Authentication == <<65, 117, 116, 104, 101, 110, 116, 105, 99, 97, 116, 105, 111, 110, 32, 40, 74, 87, 84, 41>>  \* "Authentication (JWT)"
S_Logging == <<76, 111, 103, 103, 105, 110, 103, 32, 40, 115, 116, 114, 117, 99, 116, 117, 114, 101, 100, 41>>  \* "Logging (structured)"
S_comma == <<44, 32>>  \* ", "
S_none == <<40, 110, 111, 110, 101, 41>>  \* "(none)"

\* NewModel of the three-stage wizard
SelectionNewModel ==
    [currentStage |-> Stage1ProjectType,
     projectTypes |-> <<S_WebAPI, S_CLITool, S_gRPCService, S_Microservice>>,
     projectTypeCursor |-> 0,
     selectedProjectType |-> <<>>,
     availableFeatures |-> <<S_Docker, S_GitHubActions, S_PostgreSQL,
                             S_Authentication, S_Logging>>,
     selectedFeatures |-> [f \in {S_Docker, S_GitHubActions, S_PostgreSQL,
                                  S_Authentication, S_Logging} |-> FALSE],
     featureCursor |-> 0,
     quitting |-> FALSE]

\* the three-stage program before its first message
SelectionStart ==
    /\ selection = SelectionNewModel
    /\ selectionCmd = "nil"
    /\ selectionMsg = <<>>
    /\ printed = <<>>

(***************************************************************************)
(* NewModel, and the environment the program starts in                     *)
(***************************************************************************)
\* what a string returned by View shows: the screen's title, its variable
\* lines, and the error it displays
Frame(screen, body, error) == [screen |-> screen, body |-> body, error |-> error]

\* no frame rendered yet
NoFrame == Frame("none", <<>>, NilErr)

\* the working directory: the root, /sandbox, or "/my app"
CwdPaths == {S_slash,
             <<47, 115, 97, 110, 100, 98, 111, 120>>,
             <<47, 109, 121, 32, 97, 112, 112>>}

\* the working directory starts empty
InitDisks == {EmptyDisk}

\* a Model at the given stage with the given confirmed name, input buffer and
\* option lists, and every other field as NewModel sets it
ModelAt(stage, name, value, cursor, types, pkgs) ==
    /\ currentStage = stage
    /\ projectName = name
    /\ inputValue = value
    /\ inputCursor = cursor
    /\ appTypes = types
    /\ appTypeCursor = 0
    /\ selectedAppType = <<>>
    /\ packages = pkgs
    /\ packageCursor = 0
    /\ selectedPackage = <<>>
    /\ quitting = FALSE
    /\ generationError = NilErr
    /\ generationSuccess = FALSE

NewModel == ModelAt(Stage1ProjectName, <<>>, <<>>, 0, <<S_WebAPI>>, <<S_stdlib>>)

\* the program before its first message, in one of the working directories wds
StartIn(wds) ==
    /\ cmd = "nil"
    /\ templateFS = EmbeddedTemplates
    /\ cwd \in wds
    /\ disk \in InitDisks
    /\ calls = 0
    /\ lastCall = <<>>
    /\ view = NoFrame
    /\ shownSince = 0
    /\ request = <<>>
    /\ SelectionStart

Init ==
    /\ NewModel
    /\ StartIn(CwdPaths)
    /\ typedRun = [on |-> TRUE, typed |-> <<>>, erased |-> 0]

(***************************************************************************)
(* Update: one action per branch                                           *)
(***************************************************************************)
IsQuitKey(msg) == KeyString(msg) = S_q \/ KeyString(msg) = S_ctrl_c

\* case "q", "ctrl+c", also resetting the input
UpdateQuitKey_clearing(msg) ==
    /\ IsQuitKey(msg)
    /\ quitting' = TRUE
    /\ cmd' = "Quit"
    /\ inputValue' = <<>>
    /\ inputCursor' = 0
    /\ UNCHANGED <<currentStage, projectName, appTypes, appTypeCursor, selectedAppType,
                   packages, packageCursor, selectedPackage, generationError,
                   generationSuccess>>
    /\ UNCHANGED <<templateFS, cwd, disk, calls, lastCall, typedRun>>
    /\ UNCHANGED <<view, shownSince, request, selectionVars>>

\* case "q", "ctrl+c": quit in every stage but the success stage; there the
\* case does nothing and Update returns m, nil
UpdateQuitKey(msg) ==
    /\ IsQuitKey(msg)
    /\ IF currentStage # Stage5Success
       THEN /\ quitting' = TRUE
            /\ cmd' = "Quit"
       ELSE /\ quitting' = quitting
            /\ cmd' = "nil"
    /\ UNCHANGED <<currentStage, projectName, inputValue, inputCursor, appTypes,
                   appTypeCursor, selectedAppType, packages, packageCursor,
                   selectedPackage, generationError, generationSuccess>>
    /\ UNCHANGED <<templateFS, cwd, disk, calls, lastCall, typedRun>>
    /\ UNCHANGED <<view, shownSince, request, selectionVars>>

\* inputValue[:inputCursor] + string(msg.Runes) + inputValue[inputCursor:]
InsertRunes(value, cursor, runes) ==
    SubSeq(value, 1, cursor) \o RunesToString(runes)
    \o SubSeq(value, cursor + 1, Len(value))

\* inputValue[:inputCursor-1] + inputValue[inputCursor:]
DeleteBefore(value, cursor) ==
    SubSeq(value, 1, cursor - 1) \o SubSeq(value, cursor + 1, Len(value))

\* the history of the insertions and backspaces
NoRun == [on |-> FALSE, typed |-> <<>>, erased |-> 0]
RunTyped(run, runes) ==
    IF run.on /\ run.erased = 0 THEN [run EXCEPT !.typed = run.typed \o runes]
    ELSE NoRun
RunErased(run) ==
    IF run.on /\ run.erased < Len(run.typed) THEN [run EXCEPT !.erased = run.erased + 1]
    ELSE NoRun

\* case tea.KeyEnter, moving on by two stages
stage1Enter_skipping ==
    /\ IF validateProjectName(inputValue) # NilErr
       THEN /\ generationError' = validateProjectName(inputValue)
            /\ UNCHANGED <<currentStage, projectName>>
       ELSE /\ projectName' = inputValue
            /\ currentStage' = Stage3Package
            /\ UNCHANGED generationError
    /\ UNCHANGED <<inputValue, inputCursor>>

\* case tea.KeyEnter, dropping the validation error
stage1Enter_silent ==
    /\ IF validateProjectName(inputValue) # NilErr
       THEN UNCHANGED <<currentStage, projectName, generationError>>
       ELSE /\ projectName' = inputValue
            /\ currentStage' = Stage2AppType
            /\ UNCHANGED generationError
    /\ UNCHANGED <<inputValue, inputCursor>>

\* case tea.KeyEnter, resetting the input on success
stage1Enter_clearing ==
    /\ IF validateProjectName(inputValue) # NilErr
       THEN /\ generationError' = validateProjectName(inputValue)
            /\ UNCHANGED <<currentStage, projectName, inputValue, inputCursor>>
       ELSE /\ projectName' = inputValue
            /\ currentStage' = Stage2AppType
            /\ inputValue' = <<>>
            /\ inputCursor' = 0
            /\ UNCHANGED generationError

\* case tea.KeyEnter, moving on without validating the input
stage1Enter_unvalidated ==
    /\ projectName' = inputValue
    /\ currentStage' = Stage2AppType
    /\ UNCHANGED <<generationError, inputValue, inputCursor>>

\* case tea.KeyEnter
stage1Enter ==
    /\ IF validateProjectName(inputValue) # NilErr
       THEN /\ generationError' = validateProjectName(inputValue)
            /\ UNCHANGED <<currentStage, projectName>>
       ELSE /\ projectName' = inputValue
            /\ currentStage' = Stage2AppType
            /\ UNCHANGED generationError
    /\ UNCHANGED <<inputValue, inputCursor>>

\* case tea.KeyBackspace
stage1Backspace ==
    /\ IF Len(inputValue) > 0 /\ inputCursor > 0
       THEN /\ inputValue' = DeleteBefore(inputValue, inputCursor)
            /\ inputCursor' = inputCursor - 1
       ELSE UNCHANGED <<inputValue, inputCursor>>
    /\ UNCHANGED <<currentStage, projectName, generationError>>

\* case tea.KeyLeft
stage1Left ==
    /\ inputCursor' = IF inputCursor > 0 THEN inputCursor - 1 ELSE inputCursor
    /\ UNCHANGED <<currentStage, projectName, inputValue, generationError>>

\* case tea.KeyRight, moving past the end of the input
stage1Right_unclamped ==
    /\ inputCursor' = inputCursor + 1
    /\ UNCHANGED <<currentStage, projectName, inputValue, generationError>>

\* case tea.KeyRight
stage1Right ==
    /\ inputCursor' = IF inputCursor < Len(inputValue) THEN inputCursor + 1
                      ELSE inputCursor
    /\ UNCHANGED <<currentStage, projectName, inputValue, generationError>>

\* case tea.KeyRunes; the model types no more than MaxLen bytes
stage1Runes(runes) ==
    /\ Len(inputValue) + Len(RunesToString(runes)) <= MaxLen
    /\ inputValue' = InsertRunes(inputValue, inputCursor, runes)
    /\ inputCursor' = inputCursor + Len(runes)
    /\ UNCHANGED <<currentStage, projectName, generationError>>

updateStage1(msg) ==
    /\ ~IsQuitKey(msg)
    /\ currentStage = Stage1ProjectName
    /\ CASE msg.Type = "KeyEnter" -> stage1Enter /\ typedRun' = NoRun
         [] msg.Type = "KeyBackspace" -> stage1Backspace /\ typedRun' = RunErased(typedRun)
         [] msg.Type = "KeyLeft" -> stage1Left /\ typedRun' = NoRun
         [] msg.Type = "KeyRight" -> stage1Right /\ typedRun' = NoRun
         [] msg.Type = "KeyRunes" ->
              stage1Runes(msg.Runes) /\ typedRun' = RunTyped(typedRun, msg.Runes)
         [] OTHER ->
              /\ UNCHANGED <<currentStage, projectName, inputValue, inputCursor,
                             generationError>>
              /\ typedRun' = NoRun
    /\ cmd' = "nil"
    /\ shownSince' = IF msg.Type = "KeyEnter" /\ validateProjectName(inputValue) # NilErr
                     THEN 0 ELSE shownSince
    /\ UNCHANGED <<appTypes, appTypeCursor, selectedAppType, packages, packageCursor,
                   selectedPackage, quitting, generationSuccess>>
    /\ UNCHANGED <<templateFS, cwd, disk, calls, lastCall, view, request, selectionVars>>

\* "down"/"j" wrapping around to the first option
CursorDown_wrapping(cursor, n) == (cursor + 1) % n

\* the cursor after "up"/"k" and after "down"/"j" in a list of n options
CursorUp(cursor) == IF cursor > 0 THEN cursor - 1 ELSE cursor
CursorDown(cursor, n) == IF cursor < n - 1 THEN cursor + 1 ELSE cursor

updateStage2(msg) ==
    /\ ~IsQuitKey(msg)
    /\ currentStage = Stage2AppType
    /\ CASE KeyString(msg) \in {S_up, S_k} ->
              /\ appTypeCursor' = CursorUp(appTypeCursor)
              /\ UNCHANGED <<currentStage, selectedAppType>>
         [] KeyString(msg) \in {S_down, S_j} ->
              /\ appTypeCursor' = CursorDown(appTypeCursor, Len(appTypes))
              /\ UNCHANGED <<currentStage, selectedAppType>>
         [] KeyString(msg) = S_enter ->
              /\ selectedAppType' = appTypes[appTypeCursor + 1]
              /\ currentStage' = Stage3Package
              /\ UNCHANGED appTypeCursor
         [] OTHER -> UNCHANGED <<currentStage, appTypeCursor, selectedAppType>>
    /\ cmd' = "nil"
    /\ UNCHANGED <<projectName, inputValue, inputCursor, appTypes, packages,
                   packageCursor, selectedPackage, quitting, generationError,
                   generationSuccess>>
    /\ UNCHANGED <<templateFS, cwd, disk, calls, lastCall, typedRun>>
    /\ UNCHANGED <<view, shownSince, request, selectionVars>>

\* updateStage3, selecting the first package wherever the cursor is
updateStage3_first(msg) ==
    /\ ~IsQuitKey(msg)
    /\ currentStage = Stage3Package
    /\ CASE KeyString(msg) \in {S_up, S_k} ->
              /\ packageCursor' = CursorUp(packageCursor)
              /\ UNCHANGED <<currentStage, selectedPackage>>
         [] KeyString(msg) \in {S_down, S_j} ->
              /\ packageCursor' = CursorDown(packageCursor, Len(packages))
              /\ UNCHANGED <<currentStage, selectedPackage>>
         [] KeyString(msg) = S_enter ->
              /\ selectedPackage' = packages[1]
              /\ currentStage' = Stage4Summary
              /\ UNCHANGED packageCursor
         [] OTHER -> UNCHANGED <<currentStage, packageCursor, selectedPackage>>
    /\ cmd' = "nil"
    /\ UNCHANGED <<projectName, inputValue, inputCursor, appTypes, appTypeCursor,
                   selectedAppType, packages, quitting, generationError,
                   generationSuccess>>
    /\ UNCHANGED <<templateFS, cwd, disk, calls, lastCall, typedRun>>
    /\ UNCHANGED <<view, shownSince, request, selectionVars>>

\* updateStage3
updateStage3(msg) ==
    /\ ~IsQuitKey(msg)
    /\ currentStage = Stage3Package
    /\ CASE KeyString(msg) \in {S_up, S_k} ->
              /\ packageCursor' = CursorUp(packageCursor)
              /\ UNCHANGED <<currentStage, selectedPackage>>
         [] KeyString(msg) \in {S_down, S_j} ->
              /\ packageCursor' = CursorDown(packageCursor, Len(packages))
              /\ UNCHANGED <<currentStage, selectedPackage>>
         [] KeyString(msg) = S_enter ->
              /\ selectedPackage' = packages[packageCursor + 1]
              /\ currentStage' = Stage4Summary
              /\ UNCHANGED packageCursor
         [] OTHER -> UNCHANGED <<currentStage, packageCursor, selectedPackage>>
    /\ cmd' = "nil"
    /\ UNCHANGED <<projectName, inputValue, inputCursor, appTypes, appTypeCursor,
                   selectedAppType, packages, quitting, generationError,
                   generationSuccess>>
    /\ UNCHANGED <<templateFS, cwd, disk, calls, lastCall, typedRun>>
    /\ UNCHANGED <<view, shownSince, request, selectionVars>>

\* updateStage4 taking every generation for a success
generated_unchecked(g) ==
    /\ disk' = g.disk
    /\ shownSince' = IF g.err # NilErr THEN 0 ELSE shownSince
    /\ calls' = IF g.called THEN calls + 1 ELSE calls
    /\ lastCall' = IF g.called
                    THEN <<[config |-> g.config, err |-> g.err, log |-> g.log]>>
                    ELSE lastCall
    /\ generationSuccess' = TRUE
    /\ currentStage' = Stage5Success
    /\ UNCHANGED generationError

\* updateStage4 after generateProject returned g
generated(g) ==
    /\ disk' = g.disk
    /\ shownSince' = IF g.err # NilErr THEN 0 ELSE shownSince
    /\ calls' = IF g.called THEN calls + 1 ELSE calls
    /\ lastCall' = IF g.called
                    THEN <<[config |-> g.config, err |-> g.err, log |-> g.log]>>
                    ELSE lastCall
    /\ IF g.err # NilErr
       THEN /\ generationError' = g.err
            /\ UNCHANGED <<currentStage, generationSuccess>>
       ELSE /\ generationSuccess' = TRUE
            /\ currentStage' = Stage5Success
            /\ UNCHANGED generationError

\* updateStage4; fault picks the operating-system call of the generation that
\* fails (0: none)
updateStage4(msg, fault) ==
    /\ ~IsQuitKey(msg)
    /\ currentStage = Stage4Summary
    /\ IF KeyString(msg) = S_enter
       THEN /\ calls < MaxCalls
            /\ generated(generateProject(projectName, selectedPackage, templateFS,
                                         cwd, disk, fault))
       ELSE UNCHANGED <<currentStage, generationError, generationSuccess, disk, calls,
                        lastCall, shownSince>>
    /\ cmd' = "nil"
    /\ UNCHANGED <<projectName, inputValue, inputCursor, appTypes, appTypeCursor,
                   selectedAppType, packages, packageCursor, selectedPackage, quitting>>
    /\ UNCHANGED <<templateFS, cwd, typedRun, view, request, selectionVars>>

\* updateStage5, generating once more before it exits
updateStage5_generating(msg) ==
    /\ ~IsQuitKey(msg)
    /\ currentStage = Stage5Success
    /\ quitting' = TRUE
    /\ cmd' = "Quit"
    /\ disk' = generateProject(projectName, selectedPackage, templateFS, cwd, disk,
                               0).disk
    /\ calls' = calls + 1
    /\ UNCHANGED <<currentStage, projectName, inputValue, inputCursor, appTypes,
                   appTypeCursor, selectedAppType, packages, packageCursor,
                   selectedPackage, generationError, generationSuccess>>
    /\ UNCHANGED <<templateFS, cwd, lastCall, typedRun>>
    /\ UNCHANGED <<view, shownSince, request, selectionVars>>

\* updateStage5: any key that reaches it exits
updateStage5(msg) ==
    /\ ~IsQuitKey(msg)
    /\ currentStage = Stage5Success
    /\ quitting' = TRUE
    /\ cmd' = "Quit"
    /\ UNCHANGED <<currentStage, projectName, inputValue, inputCursor, appTypes,
                   appTypeCursor, selectedAppType, packages, packageCursor,
                   selectedPackage, generationError, generationSuccess>>
    /\ UNCHANGED <<templateFS, cwd, disk, calls, lastCall, typedRun>>
    /\ UNCHANGED <<view, shownSince, request, selectionVars>>

\* Update(msg)
Update(msg) ==
    \/ UpdateQuitKey(msg)
    \/ updateStage1(msg)
    \/ updateStage2(msg)
    \/ updateStage3(msg)
    \/ \E fault \in 0..MaxFault : updateStage4(msg, fault)
    \/ updateStage5(msg)

\* GenerationSuccess reporting that a generation was attempted
GenerationSuccess_attempted ==
    calls > 0

\* GenerationSuccess, read by main when Program.Run has returned the model
GenerationSuccess ==
    generationSuccess

\* Program.Run hands key messages to Update until Update returns tea.Quit
Running == cmd # "Quit"

Next ==
    \/ \E msg \in KeyMsgs : Running /\ UpdateQuitKey(msg)
    \/ \E msg \in KeyMsgs : Running /\ updateStage1(msg)
    \/ \E msg \in KeyMsgs : Running /\ updateStage2(msg)
    \/ \E msg \in KeyMsgs : Running /\ updateStage3(msg)
    \/ \E msg \in KeyMsgs, fault \in 0..MaxFault : Running /\ updateStage4(msg, fault)
    \/ \E msg \in KeyMsgs : Running /\ updateStage5(msg)

Spec == Init /\ [][Next]_vars

(***************************************************************************)
(* validateProjectName on its own: the buffer is drawn from the names of   *)
(* at most MaxNameLen bytes over ValidateBytes, the cursor from its         *)
(* positions, and the buffer is confirmed with Enter                        *)
(***************************************************************************)
\* tab, newline, space, # - . / 0 9 : @ A Z [ _ ` a z { and the bytes of U+00E9
ValidateBytes ==
    {9, 10, 32, 35, 45, 46, 47, 48, 57, 58, 64, 65, 90, 91, 95, 96, 97, 122, 123,
     169, 195}

ValidateNames == UNION {[1..n -> ValidateBytes] : n \in 0..MaxNameLen}

EnterKey == [Type |-> "KeyEnter", Runes |-> <<>>]

InitValidate ==
    /\ \E name \in ValidateNames : \E cursor \in 0..Len(name) :
           ModelAt(Stage1ProjectName, <<>>, name, cursor, <<S_WebAPI>>, <<S_stdlib>>)
    /\ StartIn({<<47, 115, 97, 110, 100, 98, 111, 120>>})
    /\ typedRun = NoRun

NextValidate == Running /\ updateStage1(EnterKey)

SpecValidate == InitValidate /\ [][NextValidate]_vars

(***************************************************************************)
(* The selection stages with longer option lists: the session starts at    *)
(* the type selection with the name "k" confirmed, and the lists hold 1 to *)
(* MaxOptions entries                                                      *)
(***************************************************************************)
\* "base", "base2", "base3", ...
OptionList(base, n) == [i \in 1..n |-> IF i = 1 THEN base ELSE base \o <<48 + i>>]

InitOptions ==
    /\ \E n \in 1..MaxOptions, k \in 1..MaxOptions :
           ModelAt(Stage2AppType, S_k, S_k, 1, OptionList(S_WebAPI, n),
                   OptionList(S_stdlib, k))
    /\ StartIn(CwdPaths)
    /\ typedRun = NoRun

NextOptions ==
    \/ \E msg \in KeyMsgs : Running /\ UpdateQuitKey(msg)
    \/ \E msg \in KeyMsgs : Running /\ updateStage2(msg)
    \/ \E msg \in KeyMsgs : Running /\ updateStage3(msg)
    \/ \E msg \in KeyMsgs, fault \in 0..MaxFault : Running /\ updateStage4(msg, fault)
    \/ \E msg \in KeyMsgs : Running /\ updateStage5(msg)

SpecOptions == InitOptions /\ [][NextOptions]_vars

(***************************************************************************)
(* View. A frame is what the returned string shows: the screen's title,    *)
(* its variable lines, and the error it displays. View and the render      *)
(* methods have value receivers: each works on a copy m of the Model, and  *)
(* is modelled as returning [s, m], the string and the copy as it left it. *)
(***************************************************************************)
\* the Model a method with a value receiver is handed
Receiver ==
    [currentStage |-> currentStage, projectName |-> projectName,
     inputValue |-> inputValue, inputCursor |-> inputCursor, appTypes |-> appTypes,
     appTypeCursor |-> appTypeCursor, selectedAppType |-> selectedAppType,
     packages |-> packages, packageCursor |-> packageCursor,
     selectedPackage |-> selectedPackage, quitting |-> quitting,
     generationError |-> generationError, generationSuccess |-> generationSuccess]

\* for i, char := range m.inputValue from byte offset i on: each rune (a byte
\* below 128, a two-byte sequence, or U+FFFD for a byte that starts no rune of
\* the model's alphabet) followed by "|" when i is the cursor
RECURSIVE RenderInput(_, _, _)
RenderInput(value, cursor, i) ==
    IF i >= Len(value) THEN <<>>
    ELSE LET b == value[i + 1]
             two == /\ b \in 194..223
                    /\ i + 2 <= Len(value)
                    /\ value[i + 2] \in 128..191
             char == IF b < 128 THEN <<b>>
                     ELSE IF two THEN <<b, value[i + 2]>>
                     ELSE <<239, 191, 189>>
         IN  char \o (IF i = cursor THEN <<124>> ELSE <<>>)
             \o RenderInput(value, cursor, IF two THEN i + 2 ELSE i + 1)

\* renderStage1
renderStage1(m) ==
    [s |-> Frame("Enter your project name (or '.' for current directory):",
                 <<<<62, 32>> \o RenderInput(m.inputValue, m.inputCursor, 0)
                   \o (IF m.inputCursor = Len(m.inputValue) THEN <<124>> ELSE <<>>)>>,
                 m.generationError),
     m |-> [m EXCEPT !.generationError = NilErr]]

\* the lines of an option list: ">" before the entry under the cursor
OptionLines(options, cursor) ==
    [i \in 1..Len(options) |->
        <<IF cursor = i - 1 THEN 62 ELSE 32, 32>> \o options[i]]

\* renderStage2
renderStage2(m) ==
    [s |-> Frame("Select application type:", OptionLines(m.appTypes, m.appTypeCursor),
                 NilErr),
     m |-> m]

\* renderStage3
renderStage3(m) ==
    [s |-> Frame("Select package:", OptionLines(m.packages, m.packageCursor), NilErr),
     m |-> m]

\* renderStage4
renderStage4(m) ==
    [s |-> Frame("Project Configuration Summary",
                 <<m.projectName, m.selectedAppType, m.selectedPackage,
                   getTargetDir(m.projectName)>>,
                 m.generationError),
     m |-> m]

\* renderStage5
renderStage5(m) ==
    [s |-> Frame("Project created successfully!",
                 IF m.projectName # S_dot
                 THEN <<getTargetDir(m.projectName), getTargetDir(m.projectName)>>
                 ELSE <<getTargetDir(m.projectName)>>,
                 NilErr),
     m |-> m]

\* View
View(m) ==
    IF m.quitting THEN [s |-> Frame("", <<>>, NilErr), m |-> m]
    ELSE CASE m.currentStage = Stage1ProjectName -> renderStage1(m)
           [] m.currentStage = Stage2AppType -> renderStage2(m)
           [] m.currentStage = Stage3Package -> renderStage3(m)
           [] m.currentStage = Stage4Summary -> renderStage4(m)
           [] m.currentStage = Stage5Success -> renderStage5(m)
           [] OTHER -> [s |-> Frame("Error: Unknown stage", <<>>, NilErr), m |-> m]

\* the program shows frame s
Shown(s) ==
    /\ view' = s
    /\ shownSince' = IF s.error # NilErr /\ shownSince < MaxShown
                     THEN shownSince + 1 ELSE shownSince
    /\ UNCHANGED <<cmd, templateFS, cwd, disk, calls, lastCall, typedRun, request, selectionVars>>

\* a call of View whose receiver were the program's Model itself
CallView_pointer ==
    /\ Shown(View(Receiver).s)
    /\ generationError' = View(Receiver).m.generationError
    /\ UNCHANGED <<currentStage, projectName, inputValue, inputCursor, appTypes,
                   appTypeCursor, selectedAppType, packages, packageCursor,
                   selectedPackage, quitting, generationSuccess>>

\* the program calls m.View(): the receiver is a copy, and the copy is dropped
CallView ==
    /\ Shown(View(Receiver).s)
    /\ UNCHANGED modelVars

\* the keys of the sessions with rendering: enter, ctrl+c, backspace, and the
\* runes "." and "k"
ViewKeys ==
    {[Type |-> "KeyEnter", Runes |-> <<>>], [Type |-> "KeyCtrlC", Runes |-> <<>>],
     [Type |-> "KeyBackspace", Runes |-> <<>>],
     [Type |-> "KeyRunes", Runes |-> <<46>>], [Type |-> "KeyRunes", Runes |-> <<107>>]}

\* Program.Run renders the Model between the messages, and once more on the
\* way out
NextView ==
    \/ \E msg \in ViewKeys : Running /\ UpdateQuitKey(msg)
    \/ \E msg \in ViewKeys : Running /\ updateStage1(msg)
    \/ \E msg \in ViewKeys : Running /\ updateStage2(msg)
    \/ \E msg \in ViewKeys : Running /\ updateStage3(msg)
    \/ \E msg \in ViewKeys, fault \in 0..MaxFault : Running /\ updateStage4(msg, fault)
    \/ \E msg \in ViewKeys : Running /\ updateStage5(msg)
    \/ CallView

\* the sessions with rendering start in /sandbox
InitView ==
    /\ NewModel
    /\ StartIn({<<47, 115, 97, 110, 100, 98, 111, 120>>})
    /\ typedRun = NoRun

SpecView == InitView /\ [][NextView]_vars

(***************************************************************************)
(* generator.Generate on its own: a caller hands it a ProjectConfig, as    *)
(* TestGenerate does, with one of several trees embedded under templates/  *)
(* and one of several directories to run in                                *)
(***************************************************************************)
S_demo == <<100, 101, 109, 111>>                             \* "demo"
S_module == <<109, 111, 100, 117, 108, 101, 32>>             \* "module "
S_go_mod == <<103, 111, 46, 109, 111, 100>>                  \* "go.mod"

\* tfs with the file path (below the template set web-api-stdlib) and the
\* directories down to it
WithFile(tfs, path, data) ==
    LET full == <<S_templates, S_web_api_stdlib>> \o path IN
    (full :> FileEntry(data))
    @@ [q \in {SubSeq(full, 1, i) : i \in 1..(Len(full) - 1)} |-> DirEntry]
    @@ tfs

\* go.mod.tmpl holding "module {{ProjectName}}"
BareNameTemplates ==
    WithFile(EmptyDisk, <<S_go_mod_tmpl>>,
             S_module \o S_open \o Tail(S_ProjectName) \o S_close)

\* go.mod.tmpl holding "module {{.ProjectName}}"; notes.tmpl and sub/y.tmpl
\* holding plain text; x and x.tmpl, two plain files with one target
FieldTemplates ==
    WithFile(WithFile(WithFile(WithFile(WithFile(EmptyDisk,
        <<S_go_mod_tmpl>>, S_module \o S_open \o S_ProjectName \o S_close),
        <<<<110, 111, 116, 101, 115>> \o S_tmpl>>, <<111, 107, 10>>),
        <<<<115, 117, 98>>, <<121>> \o S_tmpl>>, <<122, 123>>),
        <<<<120>>>>, <<49>>),
        <<<<120>> \o S_tmpl>>, <<>>)

\* a.txt, then b.tmpl holding "{{.Nope}}", then c.txt and d/e.txt
UnknownFieldTemplates ==
    WithFile(WithFile(WithFile(WithFile(EmptyDisk,
        <<<<97, 46, 116, 120, 116>>>>, <<111, 107>>),
        <<<<98>> \o S_tmpl>>, S_open \o <<46, 78, 111, 112, 101>> \o S_close),
        <<<<99, 46, 116, 120, 116>>>>, <<111, 107>>),
        <<<<100>>, <<101, 46, 116, 120, 116>>>>, <<111, 107>>)

\* cmd/main.go and, next to the directory cmd, the file cmd.txt
SiblingTemplates ==
    WithFile(WithFile(EmptyDisk,
        <<S_cmd, S_main_go>>, <<112, 97, 99, 107, 97, 103, 101, 32, 109, 97, 105, 110, 10>>),
        <<S_cmd \o <<46, 116, 120, 116>>>>, <<111, 107>>)

\* the trees the build may embed
TemplateTrees ==
    {EmbeddedTemplates, BareNameTemplates, FieldTemplates, UnknownFieldTemplates,
     SiblingTemplates}

\* a ProjectConfig
Config(name, appType, package, targetDir, useCurrentDir) ==
    [ProjectName |-> name, ModuleName |-> name, AppType |-> appType,
     Package |-> package, TargetDir |-> targetDir, UseCurrentDir |-> useCurrentDir]

\* the configs handed to Generate: demo into ./demo/; sandbox into the current
\* directory; the pairs (web-api, gin) and (invalid, invalid), which have no
\* template; (web, api-stdlib), which spells the same path as (web-api,
\* stdlib); and (web-api, "stdlib/"), whose path is no valid path
Requests ==
    {Config(S_demo, S_web_api, S_stdlib, S_dotslash \o S_demo \o S_slash, FALSE),
     Config(<<115, 97, 110, 100, 98, 111, 120>>, S_web_api, S_stdlib, S_dotslash, TRUE),
     Config(S_demo, S_web_api, <<103, 105, 110>>, S_dotslash \o S_demo \o S_slash, FALSE),
     Config(S_demo, <<105, 110, 118, 97, 108, 105, 100>>,
            <<105, 110, 118, 97, 108, 105, 100>>, S_dotslash, TRUE),
     Config(S_demo, <<119, 101, 98>>, <<97, 112, 105, 45>> \o S_stdlib,
            S_dotslash \o S_demo \o S_slash, FALSE),
     Config(S_demo, S_web_api, S_stdlib \o S_slash, S_dotslash \o S_demo \o S_slash,
            FALSE)}

\* the directory Generate runs in: empty; holding demo/ with an older go.mod;
\* holding a file named demo; or holding demo/ with a file named cmd
GenerateDisks ==
    {EmptyDisk,
     (<<S_demo>> :> DirEntry) @@ (<<S_demo, S_go_mod>> :> FileEntry(<<111, 108, 100>>)),
     (<<S_demo>> :> FileEntry(<<>>)),
     (<<S_demo>> :> DirEntry) @@ (<<S_demo, S_cmd>> :> FileEntry(<<>>))}

InitGenerate ==
    /\ NewModel
    /\ cmd = "nil"
    /\ templateFS \in TemplateTrees
    /\ cwd = <<47, 115, 97, 110, 100, 98, 111, 120>>
    /\ disk \in GenerateDisks
    /\ request \in Requests
    /\ SelectionStart
    /\ calls = 0
    /\ lastCall = <<>>
    /\ view = NoFrame
    /\ shownSince = 0
    /\ typedRun = NoRun

\* Generate returned g
Generated(g) ==
    /\ disk' = g.disk
    /\ calls' = calls + 1
    /\ lastCall' = <<[config |-> request, err |-> g.err, log |-> g.log]>>
    /\ UNCHANGED <<modelVars, cmd, templateFS, cwd, typedRun, view, shownSince, request, selectionVars>>

\* a call Generate(request); fault picks the operating-system call that fails
Materialize(fault) ==
    /\ calls < MaxCalls
    /\ Generated(Generate(templateFS, request, disk, fault))

NextGenerate == \E fault \in 0..MaxFault : Materialize(fault)

SpecGenerate == InitGenerate /\ [][NextGenerate]_vars

(***************************************************************************)
(* The sessions of a user who has typed a name and confirms every stage:   *)
(* the buffer is drawn as for validateProjectName on its own, the working  *)
(* directory from CwdPaths, and every message is Enter                     *)
(***************************************************************************)
InitConfirm ==
    /\ \E name \in ValidateNames :
           ModelAt(Stage1ProjectName, <<>>, name, Len(name), <<S_WebAPI>>, <<S_stdlib>>)
    /\ StartIn(CwdPaths)
    /\ typedRun = NoRun

NextConfirm ==
    \/ Running /\ updateStage1(EnterKey)
    \/ Running /\ updateStage2(EnterKey)
    \/ Running /\ updateStage3(EnterKey)
    \/ \E fault \in 0..MaxFault : Running /\ updateStage4(EnterKey, fault)
    \/ Running /\ updateStage5(EnterKey)

SpecConfirm == InitConfirm /\ [][NextConfirm]_vars

(***************************************************************************)
(* The three-stage wizard: Update, GetConfiguration and main               *)
(***************************************************************************)
\* the key messages sent to the three-stage wizard
SelectionKeyMsgs ==
    {[Type |-> t, Runes |-> <<>>] :
        t \in {"KeyEnter", "KeyUp", "KeyDown", "KeyCtrlC", "KeyTab"}}
    \cup {[Type |-> "KeySpace", Runes |-> <<32>>]}
    \cup {[Type |-> "KeyRunes", Runes |-> <<r>>] : r \in {106, 107, 113, 46}}

\* what Update returns: the new model and the command
Returns(m, c) == [m |-> m, cmd |-> c]

\* case "q", "ctrl+c" of the three-stage Update
selectionQuit(m) == Returns([m EXCEPT !.quitting = TRUE], "Quit")

\* updateStage1 of the three-stage wizard (the slices are indexed from 0)
selectionStage1(m, key) ==
    CASE key \in {S_up, S_k} ->
             Returns([m EXCEPT !.projectTypeCursor = CursorUp(@)], "nil")
      [] key \in {S_down, S_j} ->
             Returns([m EXCEPT !.projectTypeCursor =
                                   CursorDown(@, Len(m.projectTypes))], "nil")
      [] key = S_enter ->
             Returns([m EXCEPT !.selectedProjectType =
                                   m.projectTypes[m.projectTypeCursor + 1],
                               !.currentStage = Stage2Features], "nil")
      [] OTHER -> Returns(m, "nil")

\* case " " of updateStage2, setting the flag instead of negating it
toggleFeature_setting(m) ==
    [m EXCEPT !.selectedFeatures[m.availableFeatures[m.featureCursor + 1]] = TRUE]

\* case " " of updateStage2
toggleFeature(m) ==
    [m EXCEPT !.selectedFeatures[m.availableFeatures[m.featureCursor + 1]] = ~@]

\* updateStage2 of the three-stage wizard
selectionStage2(m, key) ==
    CASE key \in {S_up, S_k} ->
             Returns([m EXCEPT !.featureCursor = CursorUp(@)], "nil")
      [] key \in {S_down, S_j} ->
             Returns([m EXCEPT !.featureCursor =
                                   CursorDown(@, Len(m.availableFeatures))], "nil")
      [] key = S_space -> Returns(toggleFeature(m), "nil")
      [] key = S_enter -> Returns([m EXCEPT !.currentStage = Stage3Summary], "nil")
      [] OTHER -> Returns(m, "nil")

\* updateStage3 of the three-stage wizard
selectionStage3(m, key) ==
    IF key = S_enter THEN Returns([m EXCEPT !.quitting = TRUE], "Quit")
    ELSE Returns(m, "nil")

\* getSelectedFeatures listing every available feature
getSelectedFeatures_all(m) ==
    m.availableFeatures

\* getSelectedFeatures
getSelectedFeatures(m) ==
    SelectSeq(m.availableFeatures, LAMBDA feature : m.selectedFeatures[feature])

\* GetConfiguration
GetConfiguration(m) ==
    [ProjectType |-> m.selectedProjectType, Features |-> getSelectedFeatures(m)]

\* strings.Join
RECURSIVE StringsJoin(_, _)
StringsJoin(elems, sep) ==
    IF elems = <<>> THEN <<>>
    ELSE IF Len(elems) = 1 THEN Head(elems)
    ELSE Head(elems) \o sep \o StringsJoin(Tail(elems), sep)

\* what main prints for the configuration: the heading and the values of the
\* two lines under it
mainPrints(config) ==
    IF config.ProjectType # <<>>
    THEN [heading |-> "Project Configuration:",
          type |-> config.ProjectType,
          features |-> IF Len(config.Features) > 0
                       THEN StringsJoin(config.Features, S_comma)
                       ELSE S_none]
    ELSE [heading |-> "No selection made", type |-> <<>>, features |-> <<>>]

\* the value Update was called on, once Update has returned r: the receiver
\* is a copy of it, and the copy's selectedFeatures is the same map, so that
\* an assignment to an element of the copy's map is one to the caller's
ReceiverAfter(m, r) == [m EXCEPT !.selectedFeatures = r.m.selectedFeatures]

\* Program.Run hands Update the result r for msg
selectionReturned(r, msg) ==
    /\ selection' = r.m
    /\ selectionCmd' = r.cmd
    /\ selectionMsg' = <<[msg |-> msg, model |-> selection,
                          receiver |-> ReceiverAfter(selection, r)]>>
    /\ UNCHANGED <<printed, generatorVars>>

SelectionRunning == selectionCmd # "Quit"

SelectionQuitKey(msg) ==
    /\ SelectionRunning
    /\ IsQuitKey(msg)
    /\ selectionReturned(selectionQuit(selection), msg)

SelectionStage1(msg) ==
    /\ SelectionRunning
    /\ ~IsQuitKey(msg)
    /\ selection.currentStage = Stage1ProjectType
    /\ selectionReturned(selectionStage1(selection, KeyString(msg)), msg)

SelectionStage2(msg) ==
    /\ SelectionRunning
    /\ ~IsQuitKey(msg)
    /\ selection.currentStage = Stage2Features
    /\ selectionReturned(selectionStage2(selection, KeyString(msg)), msg)

SelectionStage3(msg) ==
    /\ SelectionRunning
    /\ ~IsQuitKey(msg)
    /\ selection.currentStage = Stage3Summary
    /\ selectionReturned(selectionStage3(selection, KeyString(msg)), msg)

\* main, once Program.Run has returned the final model
SelectionMain ==
    /\ ~SelectionRunning
    /\ printed = <<>>
    /\ printed' = <<mainPrints(GetConfiguration(selection))>>
    /\ UNCHANGED <<selection, selectionCmd, selectionMsg, generatorVars>>

InitSelection ==
    /\ NewModel
    /\ StartIn({S_slash \o S_sandbox})
    /\ typedRun = NoRun

NextSelection ==
    \/ \E msg \in SelectionKeyMsgs : SelectionQuitKey(msg)
    \/ \E msg \in SelectionKeyMsgs : SelectionStage1(msg)
    \/ \E msg \in SelectionKeyMsgs : SelectionStage2(msg)
    \/ \E msg \in SelectionKeyMsgs : SelectionStage3(msg)
    \/ SelectionMain

SpecSelection == InitSelection /\ [][NextSelection]_vars

(***************************************************************************)
(* Update as Program.Run calls it while the QuitMsg of a returned tea.Quit *)
(* has not reached the event loop: the key messages sent before it are     *)
(* still handed to Update                                                  *)
(***************************************************************************)
NextQueued ==
    \/ \E msg \in ViewKeys : UpdateQuitKey(msg)
    \/ \E msg \in ViewKeys : updateStage1(msg)
    \/ \E msg \in ViewKeys : updateStage2(msg)
    \/ \E msg \in ViewKeys : updateStage3(msg)
    \/ \E msg \in ViewKeys, fault \in 0..MaxFault : updateStage4(msg, fault)
    \/ \E msg \in ViewKeys : updateStage5(msg)

SpecQueued == InitView /\ [][NextQueued]_vars

(***************************************************************************)
(* Properties                                                              *)
(***************************************************************************)
\* the name policy: the literal "." or one or more of A-Z a-z 0-9 _ -
PolicyBytes == (48..57) \cup (65..90) \cup (97..122) \cup {45, 95}
NamePolicy(name) ==
    \/ name = <<46>>
    \/ Len(name) >= 1 /\ \A i \in 1..Len(name) : name[i] \in PolicyBytes

\* C1: a confirm in NameInput is accepted (the session moves to TypeSelect)
\* exactly when the buffer is "." or consists of one or more characters of
\* [A-Za-z0-9_-]; every other buffer is rejected with an error.
C1_ValidationExact ==
    (currentStage = Stage1ProjectName /\ Running) =>
        /\ NamePolicy(inputValue) <=>
               ENABLED (Update(EnterKey) /\ currentStage' = Stage2AppType)
        /\ ~NamePolicy(inputValue) <=>
               ENABLED (Update(EnterKey) /\ currentStage' = Stage1ProjectName
                        /\ generationError' # NilErr)

\* the sentinel "." was confirmed and accepted
C1_Witness == currentStage = Stage2AppType /\ projectName = <<46>>

\* the derivation of the ProjectConfig: the target directory of a name
DerivedTargetDir(name) ==
    IF name = <<46>> THEN <<46>> ELSE <<46, 47>> \o name \o <<47>>

\* the working directory is the filesystem root
AtRoot(wd) == \A i \in 1..Len(wd) : wd[i] = 47

\* call.config is the configuration derived from the confirmed name, the
\* selected package and the working directory (the target directory up to the
\* spelling of the same path)
DerivedFor(call, name, pkg, wd) ==
    /\ call.config.ProjectName = IF name = <<46>> THEN Base(wd) ELSE name
    /\ call.config.ModuleName = call.config.ProjectName
    /\ call.config.Package = pkg
    /\ call.config.UseCurrentDir = (name = <<46>>)
    /\ Clean(call.config.TargetDir) = Clean(DerivedTargetDir(name))

\* the step invoked the generator once with the derived configuration and
\* followed its result
InvokedAndFollowed ==
    /\ calls' = calls + 1
    /\ lastCall' # <<>>
    /\ DerivedFor(lastCall'[1], projectName, selectedPackage, cwd)
    /\ IF lastCall'[1].err = NilErr
       THEN /\ currentStage' = Stage5Success
            /\ generationSuccess' = TRUE
       ELSE /\ currentStage' = Stage4Summary
            /\ generationError' = lastCall'[1].err
            /\ generationSuccess' = FALSE

\* the step failed before the generator was invoked
FailedBeforeInvoking ==
    /\ calls' = calls
    /\ disk' = disk
    /\ currentStage' = Stage4Summary
    /\ generationError' # NilErr
    /\ generationSuccess' = FALSE

C3_StageOrder ==
    [][/\ currentStage' \in {currentStage, currentStage + 1}
       /\ cmd' = "Quit" => currentStage' = currentStage]_vars

\* the session went through all five stages and ended
C3_Witness == currentStage = Stage5Success /\ quitting /\ cmd = "Quit"

\* the cancel keys: ctrl+c and q
CancelKeys == {[Type |-> "KeyCtrlC", Runes |-> <<>>], [Type |-> "KeyRunes", Runes |-> <<113>>]}

\* the step terminated the session and changed nothing else
Cancelled ==
    /\ quitting' = TRUE
    /\ cmd' = "Quit"
    /\ UNCHANGED <<currentStage, inputValue, inputCursor, appTypeCursor, packageCursor,
                   projectName, selectedAppType, selectedPackage, generationSuccess>>
    /\ UNCHANGED <<calls, lastCall, disk>>

\* C4: in every stage but Success, q and ctrl+c set quitting, request tea.Quit
\* and leave the stage, the buffer, the cursors, the selected values and the
\* success flag unchanged; the generator is not invoked.
C4_Cancel ==
    (currentStage # Stage5Success /\ Running) =>
        \A msg \in CancelKeys :
            /\ ENABLED Update(msg)
            /\ ~ENABLED (Update(msg) /\ ~Cancelled)

\* the session was cancelled at the package selection
C4_Witness == currentStage = Stage3Package /\ quitting /\ cmd = "Quit"

\* C5 as stated: in Success every key, q and ctrl+c included, sets quitting and
\* requests tea.Quit, and the stage stays Success.
C5_AnyKeyExits ==
    (currentStage = Stage5Success /\ Running) =>
        \A msg \in KeyMsgs :
            /\ ENABLED Update(msg)
            /\ ~ENABLED (Update(msg)
                         /\ ~(quitting' = TRUE /\ cmd' = "Quit"
                              /\ currentStage' = Stage5Success))


\* the step inserted the runes at the cursor and moved the cursor past them
Inserted(runes) ==
    /\ inputValue' = SubSeq(inputValue, 1, inputCursor) \o RunesToString(runes)
                     \o SubSeq(inputValue, inputCursor + 1, Len(inputValue))
    /\ inputCursor' = inputCursor + Len(runes)
    /\ currentStage' = Stage1ProjectName
    /\ quitting' = FALSE
    /\ cmd' # "Quit"

\* C6 as stated: in NameInput a KeyRunes message, whatever its runes, inserts
\* them at the cursor, advances the cursor by their number, and leaves the
\* session in NameInput and not terminated.
C6_TypedInserts ==
    (currentStage = Stage1ProjectName /\ Running) =>
        \A msg \in KeyMsgs :
            msg.Type = "KeyRunes" => ~ENABLED (Update(msg) /\ ~Inserted(msg.Runes))

\* C7 as stated: from the empty buffer, after N inserted characters followed by
\* M <= N backspaces the cursor is N - M and the buffer is the first N - M of the
\* inserted characters.
C7_TypeThenErase ==
    typedRun.on =>
        /\ inputCursor = Len(typedRun.typed) - typedRun.erased
        /\ inputValue =
               RunesToString(SubSeq(typedRun.typed, 1,
                                    Len(typedRun.typed) - typedRun.erased))

\* the keys that move an option cursor up, and down
UpKeys == {[Type |-> "KeyUp", Runes |-> <<>>], [Type |-> "KeyRunes", Runes |-> <<107>>]}
DownKeys == {[Type |-> "KeyDown", Runes |-> <<>>], [Type |-> "KeyRunes", Runes |-> <<106>>]}

\* one step up, one step down in n options, clamped
ClampedUp(cursor) == IF cursor = 0 THEN 0 ELSE cursor - 1
ClampedDown(cursor, n) == IF cursor = n - 1 THEN cursor ELSE cursor + 1

\* C8: the option cursors stay within their lists; in TypeSelect and
\* PackageSelect an up at 0 and a down at the last index leave the cursor where
\* it is, and every other up or down moves it by exactly one.
C8_CursorClamped ==
    /\ appTypeCursor \in 0..(Len(appTypes) - 1)
    /\ packageCursor \in 0..(Len(packages) - 1)
    /\ (currentStage = Stage2AppType /\ Running) =>
           /\ \A msg \in UpKeys :
                  /\ ENABLED Update(msg)
                  /\ ~ENABLED (Update(msg)
                               /\ appTypeCursor' # ClampedUp(appTypeCursor))
           /\ \A msg \in DownKeys :
                  /\ ENABLED Update(msg)
                  /\ ~ENABLED (Update(msg)
                               /\ appTypeCursor' # ClampedDown(appTypeCursor, Len(appTypes)))
    /\ (currentStage = Stage3Package /\ Running) =>
           /\ \A msg \in UpKeys :
                  /\ ENABLED Update(msg)
                  /\ ~ENABLED (Update(msg)
                               /\ packageCursor' # ClampedUp(packageCursor))
           /\ \A msg \in DownKeys :
                  /\ ENABLED Update(msg)
                  /\ ~ENABLED (Update(msg)
                               /\ packageCursor' # ClampedDown(packageCursor, Len(packages)))

\* both cursors were moved to the last of two options
C8_Witness ==
    /\ currentStage = Stage3Package
    /\ Len(appTypes) = 2 /\ appTypeCursor = 1
    /\ Len(packages) = 2 /\ packageCursor = 1

\* the error of the name policy for a name it rejects
PolicyError(name) ==
    IF \A i \in 1..Len(name) : name[i] \in {9, 10, 11, 12, 13, 32}
    THEN <<"project name cannot be empty">>
    ELSE <<"project name must contain only letters, numbers, hyphens, and underscores">>

\* the step rejected the buffer
Rejected ==
    /\ currentStage' = Stage1ProjectName
    /\ generationError' = PolicyError(inputValue)
    /\ UNCHANGED <<inputValue, inputCursor, projectName>>
    /\ quitting' = FALSE
    /\ cmd' # "Quit"

\* C9: a confirm in NameInput of a buffer that fails validation stays in
\* NameInput, stores the validation error, leaves the buffer, the cursor and the
\* confirmed name unchanged and does not terminate the session.
C9_RejectedConfirm ==
    (currentStage = Stage1ProjectName /\ Running /\ ~NamePolicy(inputValue)) =>
        /\ ENABLED Update(EnterKey)
        /\ ~ENABLED (Update(EnterKey) /\ ~Rejected)

\* "a " was confirmed and rejected
C9_Witness ==
    /\ currentStage = Stage1ProjectName
    /\ inputValue = <<97, 32>>
    /\ generationError # NilErr
    /\ ~quitting

\* C10 as stated: after a confirm in NameInput that passes validation the
\* confirmed name is the buffer's content and the buffer is cleared.
C10_BufferCleared ==
    (currentStage = Stage1ProjectName /\ Running /\ NamePolicy(inputValue)) =>
        ~ENABLED (Update(EnterKey) /\ ~(projectName' = inputValue /\ inputValue' = <<>>))

\* C10, amended: after a confirm in NameInput that passes validation the
\* confirmed name is the buffer's content, the stage is TypeSelect, and the
\* buffer and its cursor are left as they were (the buffer is not cleared).
C10_BufferKept ==
    (currentStage = Stage1ProjectName /\ Running /\ NamePolicy(inputValue)) =>
        /\ ENABLED Update(EnterKey)
        /\ ~ENABLED (Update(EnterKey)
                     /\ ~(/\ projectName' = inputValue
                          /\ currentStage' = Stage2AppType
                          /\ UNCHANGED <<inputValue, inputCursor>>))

\* "a-" was confirmed with the cursor in its middle, and is still in the buffer
C10_Witness ==
    /\ currentStage = Stage2AppType
    /\ projectName = <<97, 45>>
    /\ inputValue = <<97, 45>>
    /\ inputCursor = 1

\* C11: display-once: once an error stored by a failed validation or a failed
\* generation has been rendered, it is cleared (generationError is nil), and
\* no later rendering shows it again before the next failure.
C11_DisplayOnce ==
    shownSince >= 1 => (generationError = NilErr /\ shownSince <= 1)

TemplateSet(appType, package) == <<S_templates, appType \o S_dash \o package>>
HasTemplateSet(tfs, appType, package) ==
    /\ TemplateSet(appType, package) \in DOMAIN tfs
    /\ tfs[TemplateSet(appType, package)].dir

\* a step that confirms the summary and calls generator.Generate for a pair
\* without a template set
ConfirmsUnknownPair ==
    /\ currentStage = Stage4Summary
    /\ calls' = calls + 1
    /\ ~HasTemplateSet(templateFS, lastCall'[1].config.AppType,
                       lastCall'[1].config.Package)

\* the confirm failed: the error is stored and the stage is still the summary
ConfirmFailed ==
    /\ lastCall'[1].err # NilErr
    /\ generationError' = lastCall'[1].err
    /\ currentStage' = Stage4Summary
    /\ ~generationSuccess'

\* the directories on the way to path, path included
DirsTo(path) == {SubSeq(Resolve(path), 1, i) : i \in 1..Len(Resolve(path))}

\* C13 (as claimed): confirming the summary for an (appType, package) pair
\* without a template set returns an error, leaves the session in the summary
\* with the error stored, and creates nothing on the filesystem: no file and
\* no directory, the target directory included.
C13_UnknownPairCreatesNothing ==
    [][ConfirmsUnknownPair => (ConfirmFailed /\ disk' = disk)]_vars

\* C13 (amended): confirming the summary for a pair without a template set
\* returns an error and leaves the session in the summary with the error
\* stored; no file is created or changed and nothing is removed; the only
\* entries created are the target directory and its missing parents, and
\* only when the project is not generated in the current directory.
C13_UnknownPairCreatesNoFile ==
    [][ConfirmsUnknownPair =>
         /\ ConfirmFailed
         /\ \A q \in DOMAIN disk : q \in DOMAIN disk' /\ disk'[q] = disk[q]
         /\ \A q \in DOMAIN disk' \ DOMAIN disk :
                /\ disk'[q].dir
                /\ ~lastCall'[1].config.UseCurrentDir
                /\ q \in DirsTo(lastCall'[1].config.TargetDir)]_vars

\* the summary was confirmed for web-api with a package that has no template
\* set: the error is stored, the stage is the summary, and the target
\* directory is there
C13_Witness ==
    /\ lastCall # <<>>
    /\ ~HasTemplateSet(templateFS, lastCall[1].config.AppType, lastCall[1].config.Package)
    /\ currentStage = Stage4Summary
    /\ generationError = lastCall[1].err
    /\ generationError # NilErr
    /\ ~lastCall[1].config.UseCurrentDir
    /\ DirsTo(lastCall[1].config.TargetDir) \subseteq DOMAIN disk

\* the files of the template set of config's pair, as paths of the embedded tree
SetFiles(tfs, config) ==
    IF ~HasTemplateSet(tfs, config.AppType, config.Package) THEN {}
    ELSE {q \in DOMAIN tfs :
            /\ Len(q) > 2
            /\ SubSeq(q, 1, 2) = TemplateSet(config.AppType, config.Package)
            /\ ~tfs[q].dir}

\* the path of file q relative to its template set
RelPath(q) == JoinElems(SubSeq(q, 3, Len(q)))

\* the path the file at relative path rel is generated at
TargetOf(config, rel) ==
    IF HasSuffix(rel, S_tmpl) THEN TrimSuffix(Join(config.TargetDir, rel), S_tmpl)
    ELSE Join(config.TargetDir, rel)

\* data has a {{.Field}} action naming no field of ProjectConfig
HasUnknownField(data) ==
    \E i \in 1..Len(ParseTemplate(data)) :
        /\ ParseTemplate(data)[i].kind = "field"
        /\ ParseTemplate(data)[i].v \notin ConfigFields

\* the template-marked files of config's set that reference an unknown field
UnknownFieldFiles(tfs, config) ==
    {q \in SetFiles(tfs, config) :
        HasSuffix(RelPath(q), S_tmpl) /\ HasUnknownField(tfs[q].data)}

\* the run wrote a file at path
Wrote(log, path) ==
    \E i \in 1..Len(log) : ~log[i].dir /\ Resolve(log[i].target) = Resolve(path)

\* the entry at path is as it was before the step
Untouched(path) ==
    IF Resolve(path) \in DOMAIN disk
    THEN Resolve(path) \in DOMAIN disk' /\ disk'[Resolve(path)] = disk[Resolve(path)]
    ELSE Resolve(path) \notin DOMAIN disk'

\* C14: substitution fails closed: when a template-marked file of the set
\* references a field that ProjectConfig does not have, Generate returns an
\* error and writes no output file for that template: its target is as it
\* was before the call (absent when it was absent).
C14_FailsClosed ==
    [][calls' = calls + 1 =>
         \A q \in UnknownFieldFiles(templateFS, request) :
             /\ lastCall'[1].err # NilErr
             /\ ~Wrote(lastCall'[1].log, TargetOf(request, RelPath(q)))
             /\ Untouched(TargetOf(request, RelPath(q)))]_vars

\* Generate reached a template with an unknown field: the entry before it is
\* written and the error is the execution error of the template
C14_Witness ==
    /\ lastCall # <<>>
    /\ UnknownFieldFiles(templateFS, lastCall[1].config) # {}
    /\ lastCall[1].err = <<"failed to copy template files", "failed to process template",
                           "failed to execute template", "exec">>
    /\ Wrote(lastCall[1].log, Join(lastCall[1].config.TargetDir, <<97, 46, 116, 120, 116>>))

\* the entries of config's template set in traversal order
Entries(tfs, config) == WalkDir(tfs, TemplateSet(config.AppType, config.Package))

\* where entry d of the set is generated
EntryTarget(config, d) ==
    IF d.dir THEN Join(config.TargetDir, d.path) ELSE TargetOf(config, d.path)

\* what the call completed of the template set: its log without the target
\* directory's creation
BodyLog(call) ==
    IF call.config.UseCurrentDir \/ call.log = <<>> THEN call.log ELSE Tail(call.log)

\* the call reached the traversal of a template set
ReachedTraversal(tfs, call) ==
    /\ HasTemplateSet(tfs, call.config.AppType, call.config.Package)
    /\ call.config.UseCurrentDir \/ call.log # <<>>

\* the call completed the first entries of the traversal, in order, and failed
\* exactly when it did not complete them all
CompletedPrefix(call, entries, done) ==
    /\ Len(done) <= Len(entries)
    /\ \A i \in 1..Len(done) :
           /\ done[i].dir = entries[i].dir
           /\ done[i].target = EntryTarget(call.config, entries[i])
    /\ (call.err = NilErr) <=> (Len(done) = Len(entries))
    /\ call.err # NilErr => Head(call.err) = "failed to copy template files"

\* the step created or changed nothing but the targets of completed entries,
\* removed nothing, and every file a completed entry wrote is in place with
\* the bytes of the last write to it
OnlyCompleted(log) ==
    /\ \A q \in DOMAIN disk : q \in DOMAIN disk'
    /\ \A q \in DOMAIN disk' :
           (q \notin DOMAIN disk \/ disk'[q] # disk[q])
               => \E i \in 1..Len(log) : Resolve(log[i].target) = q
    /\ \A i \in 1..Len(log) :
           (/\ ~log[i].dir
            /\ \A j \in (i + 1)..Len(log) :
                   Resolve(log[j].target) # Resolve(log[i].target))
               => /\ Resolve(log[i].target) \in DOMAIN disk'
                  /\ disk'[Resolve(log[i].target)] = FileEntry(log[i].data)

\* C15: when an entry of the template set fails (substitution, directory
\* creation or write), Generate stops there and returns an error: the
\* completed entries are exactly the entries before it in traversal order,
\* nothing of the failed or a later entry is created or written, and the
\* files written for the earlier entries stay in place.
C15_StopsAtFailure ==
    [][(calls' = calls + 1 /\ ReachedTraversal(templateFS, lastCall'[1]))
         => /\ CompletedPrefix(lastCall'[1], Entries(templateFS, request),
                               BodyLog(lastCall'[1]))
            /\ OnlyCompleted(lastCall'[1].log)]_vars

\* a call failed at an entry after writing a file for an earlier one, with at
\* least one entry after the failed one
C15_Witness ==
    /\ lastCall # <<>>
    /\ ReachedTraversal(templateFS, lastCall[1])
    /\ lastCall[1].err # NilErr
    /\ \E i \in 1..Len(BodyLog(lastCall[1])) :
           /\ ~BodyLog(lastCall[1])[i].dir
           /\ Resolve(BodyLog(lastCall[1])[i].target) \in DOMAIN disk
    /\ Len(BodyLog(lastCall[1])) + 1 < Len(Entries(templateFS, lastCall[1].config))

\* the demo scenario's config
DemoConfig ==
    Config(S_demo, S_web_api, S_stdlib, S_dotslash \o S_demo \o S_slash, FALSE)

\* the error comes from the operating system (a directory creation or a write
\* failed)
OsFailed(err) == err # NilErr /\ err[Len(err)] \in {"mkdir", "open"}

\* ./demo/go.mod holds exactly "module demo"
DemoGoMod(d) ==
    /\ <<S_demo, S_go_mod>> \in DOMAIN d
    /\ d[<<S_demo, S_go_mod>>] = FileEntry(S_module \o S_demo)

\* C16 (as claimed): with go.mod.tmpl holding "module {{ProjectName}}",
\* Generate for the demo config succeeds, unless the operating system fails,
\* and leaves ./demo/go.mod holding exactly "module demo".
C16_BareNameScenario ==
    [][(/\ calls' = calls + 1
        /\ request = DemoConfig
        /\ templateFS = BareNameTemplates
        /\ ~OsFailed(lastCall'[1].err))
         => (lastCall'[1].err = NilErr /\ DemoGoMod(disk'))]_vars

\* the template-marked files of the set holding text, {{.ProjectName}}, text
NameOnce(data) ==
    /\ IndexFrom(data, S_open \o S_ProjectName \o S_close, 1) > 0
    /\ IndexFrom(data, S_open, 1) = IndexFrom(data, S_open \o S_ProjectName \o S_close, 1)
    /\ IndexFrom(data, S_open, IndexFrom(data, S_open, 1) + 1) = 0

NameFiles(tfs, config) ==
    {q \in SetFiles(tfs, config) : HasSuffix(RelPath(q), S_tmpl) /\ NameOnce(tfs[q].data)}

\* data with its one {{.ProjectName}} replaced by name
NameReplaced(data, name) ==
    SubSeq(data, 1, IndexFrom(data, S_open, 1) - 1) \o name
    \o SubSeq(data, IndexFrom(data, S_open, 1) + Len(S_open \o S_ProjectName \o S_close),
              Len(data))

\* C16 (amended): with go.mod.tmpl holding "module {{.ProjectName}}", Generate
\* for the demo config succeeds, unless the operating system fails, and leaves
\* ./demo/go.mod holding exactly "module demo"; and every successful Generate
\* writes each template-marked file that holds one {{.ProjectName}} with the
\* placeholder replaced by config.ProjectName, at the path without ".tmpl".
C16_FieldNameScenario ==
    [][calls' = calls + 1 =>
         /\ (/\ request = DemoConfig
             /\ templateFS = FieldTemplates
             /\ ~OsFailed(lastCall'[1].err))
                => (lastCall'[1].err = NilErr /\ DemoGoMod(disk'))
         /\ lastCall'[1].err = NilErr =>
                \A q \in NameFiles(templateFS, request) :
                    /\ Resolve(TargetOf(request, RelPath(q))) \in DOMAIN disk'
                    /\ disk'[Resolve(TargetOf(request, RelPath(q)))]
                           = FileEntry(NameReplaced(templateFS[q].data,
                                                    request.ProjectName))
                    /\ ~HasSuffix(TargetOf(request, RelPath(q)), S_tmpl)]_vars

\* the demo config was generated from "module {{.ProjectName}}" over an older
\* ./demo/go.mod
C16_Witness ==
    /\ lastCall # <<>>
    /\ lastCall[1].config = DemoConfig
    /\ templateFS = FieldTemplates
    /\ lastCall[1].err = NilErr
    /\ DemoGoMod(disk)
    /\ \E i \in 1..Len(lastCall[1].log) :
           lastCall[1].log[i] = [target |-> <<100, 101, 109, 111, 47>> \o S_go_mod,
                                 dir |-> FALSE, data |-> S_module \o S_demo]

\* data holds literal text only: no action opens in it
Literal(data) == IndexFrom(data, S_open, 1) = 0

\* the relative path a file of the set is generated at: the source's, without
\* a trailing ".tmpl"
OutputRel(rel) ==
    IF Len(rel) >= 5 /\ SubSeq(rel, Len(rel) - 4, Len(rel)) = <<46, 116, 109, 112, 108>>
    THEN SubSeq(rel, 1, Len(rel) - 5)
    ELSE rel

\* the write logged for the source file q of the set: the source's bytes at
\* the source's relative path below the target directory
CopiedAsIs(tfs, config, q, done) ==
    /\ ~done.dir
    /\ done.data = tfs[q].data
    /\ done.target = Join(config.TargetDir, OutputRel(RelPath(q)))

\* C17: a file of the template set that holds literal text only is written
\* with exactly the source's bytes, at the source's relative path, from which
\* a trailing ".tmpl" is removed if and only if the source path has one: this
\* holds of every such file a call completes, and a successful call completes
\* every such file.
C17_LiteralCopied ==
    [][(calls' = calls + 1 /\ ReachedTraversal(templateFS, lastCall'[1])) =>
         /\ \A i \in 1..Len(BodyLog(lastCall'[1])) :
                (/\ ~Entries(templateFS, request)[i].dir
                 /\ Literal(templateFS[TemplateSet(request.AppType, request.Package)
                        \o SplitPath(Entries(templateFS, request)[i].path, <<>>)].data))
                    => CopiedAsIs(templateFS, request,
                                  TemplateSet(request.AppType, request.Package)
                                  \o SplitPath(Entries(templateFS, request)[i].path, <<>>),
                                  BodyLog(lastCall'[1])[i])
         /\ lastCall'[1].err = NilErr =>
                \A q \in SetFiles(templateFS, request) :
                    Literal(templateFS[q].data) =>
                        \E i \in 1..Len(lastCall'[1].log) :
                            CopiedAsIs(templateFS, request, q, lastCall'[1].log[i])]_vars

\* a call copied notes.tmpl to notes and sub/y.tmpl to sub/y, byte for byte,
\* and x to x
C17_Witness ==
    /\ lastCall # <<>>
    /\ templateFS = FieldTemplates
    /\ lastCall[1].err = NilErr
    /\ \E i, j, k \in 1..Len(lastCall[1].log) :
           /\ lastCall[1].log[i] =
                  [target |-> Join(lastCall[1].config.TargetDir, <<110, 111, 116, 101, 115>>),
                   dir |-> FALSE, data |-> <<111, 107, 10>>]
           /\ lastCall[1].log[j] =
                  [target |-> Join(lastCall[1].config.TargetDir, <<115, 117, 98, 47, 121>>),
                   dir |-> FALSE, data |-> <<122, 123>>]
           /\ lastCall[1].log[k] =
                  [target |-> Join(lastCall[1].config.TargetDir, <<120>>),
                   dir |-> FALSE, data |-> <<49>>]

\* the errors Generate returns when getTemplateFS fails
ResolutionErrors ==
    {<<"failed to get template filesystem", "template not found">>,
     <<"failed to get template filesystem", "template directory is empty or invalid">>}

\* the identifier of config's template set
Identifier(config) == config.AppType \o S_dash \o config.Package

CreatesNothing(d, path) ==
    \A fault \in 0..MaxFault :
        /\ createDirectory(StartGeneration(d), path, fault).err = NilErr
        /\ createDirectory(StartGeneration(d), path, fault).disk = d

\* C20: directory creation is idempotent: createDirectory on a path where a
\* directory exists (written with or without a trailing slash) returns nil
\* and changes nothing, and a Generate whose target directory already exists
\* does not fail at the creation of the target directory: it goes on to the
\* template set.
C20_DirectoryIdempotent ==
    /\ [](\A q \in DOMAIN disk :
            disk[q].dir => /\ CreatesNothing(disk, JoinElems(q))
                           /\ CreatesNothing(disk, S_dotslash \o JoinElems(q) \o S_slash))
    /\ [][(/\ calls' = calls + 1
           /\ ~request.UseCurrentDir
           /\ IsDirAt(disk, Resolve(request.TargetDir)))
            => /\ lastCall'[1].log # <<>>
               /\ Head(lastCall'[1].log) =
                      [target |-> request.TargetDir, dir |-> TRUE, data |-> <<>>]
               /\ \A i \in 1..Len(lastCall'[1].err) :
                      lastCall'[1].err[i] # "failed to create target directory"]_vars

\* the second Generate into ./demo/, which was there before the first (it
\* holds the older go.mod), passed the target directory's creation and failed
\* later
C20_Witness ==
    /\ calls = 2
    /\ lastCall[1].config = DemoConfig
    /\ <<S_demo, S_go_mod>> \in DOMAIN disk
    /\ disk[<<S_demo, S_go_mod>>] = FileEntry(<<111, 108, 100>>)
    /\ lastCall[1].err # NilErr
    /\ Head(lastCall[1].err) = "failed to copy template files"
    /\ Head(lastCall[1].log) =
           [target |-> DemoConfig.TargetDir, dir |-> TRUE, data |-> <<>>]


\* a step out of the summary with "." confirmed as the name, in a working
\* directory named sandbox
ConfirmsDotInSandbox ==
    /\ currentStage = Stage4Summary
    /\ projectName = S_dot
    /\ Base(cwd) = S_sandbox
    /\ cmd' # "Quit"

\* the step called Generate with the name sandbox, in the current directory,
\* and with the target directory dir
DerivedSandbox(dir) ==
    /\ calls' = calls + 1
    /\ lastCall'[1].config.ProjectName = S_sandbox
    /\ lastCall'[1].config.UseCurrentDir
    /\ lastCall'[1].config.TargetDir = dir

\* C21 (as claimed): with "." confirmed and the working directory named
\* sandbox, the summary's confirm derives the name "sandbox",
\* useCurrentDirectory true and the target directory ".".
C21_DotDerivesDot ==
    [][ConfirmsDotInSandbox => DerivedSandbox(S_dot)]_vars

\* C21 (amended): with "." confirmed and the working directory named
\* sandbox, the summary's confirm derives the name "sandbox",
\* useCurrentDirectory true and the target directory "./".
C21_DotDerivesDotSlash ==
    [][ConfirmsDotInSandbox => DerivedSandbox(S_dotslash)]_vars

\* Generate was called for "." in /sandbox with the derived config
C21_Witness ==
    /\ projectName = S_dot
    /\ Base(cwd) = S_sandbox
    /\ lastCall # <<>>
    /\ lastCall[1].config.ProjectName = S_sandbox
    /\ lastCall[1].config.ModuleName = S_sandbox
    /\ lastCall[1].config.UseCurrentDir
    /\ lastCall[1].config.TargetDir = S_dotslash


(***************************************************************************)
(* C22: the configuration derived from a confirmed name other than "."     *)
(***************************************************************************)
ConfirmsNamed ==
    /\ currentStage = Stage4Summary
    /\ projectName # S_dot
    /\ cmd' # "Quit"

\* the location the Summary screen shows (renderStage4)
SummaryLocation == getTargetDir(projectName)

DerivedNamed ==
    /\ calls' = calls + 1
    /\ lastCall'[1].config.ProjectName = projectName
    /\ lastCall'[1].config.ModuleName = projectName
    /\ ~lastCall'[1].config.UseCurrentDir
    /\ lastCall'[1].config.TargetDir = S_dotslash \o projectName \o S_slash
    /\ lastCall'[1].config.TargetDir = SummaryLocation

\* C22: for every confirmed name other than ".", the configuration handed to
\* the generator has project name and module name equal to the name, does not
\* use the current directory, and has the target directory "./" + name + "/",
\* which is the location the Summary screen shows; for "." the Summary
\* screen shows "./".
C22_NamedDerivation ==
    /\ [](projectName = S_dot => SummaryLocation = S_dotslash)
    /\ [][ConfirmsNamed => DerivedNamed]_vars

C22_Witness ==
    /\ projectName # S_dot /\ Len(projectName) = MaxNameLen /\ lastCall # <<>>
    /\ lastCall[1].config.ProjectName = projectName
    /\ ~lastCall[1].config.UseCurrentDir
    /\ lastCall[1].config.TargetDir = getTargetDir(projectName)


(***************************************************************************)
(* C23: generation stays inside the working directory                      *)
(***************************************************************************)
\* path p is directory dir or lies below it
Within(dir, p) == Len(dir) <= Len(p) /\ SubSeq(p, 1, Len(dir)) = dir

\* the working directory itself, or a direct child named in [A-Za-z0-9_-]
InWorkingDirectory(targetDir) ==
    \/ targetDir = S_dotslash
    \/ \E n \in 1..(Len(targetDir) - 3) :
           /\ Len(targetDir) = n + 3
           /\ SubSeq(targetDir, 1, 2) = S_dotslash
           /\ targetDir[Len(targetDir)] = 47
           /\ \A i \in 3..(n + 2) : targetDir[i] \in PolicyBytes
           /\ Resolve(targetDir) = <<SubSeq(targetDir, 3, n + 2)>>

\* the paths of disk e that disk d does not have, or has with another content
Created(d, e) == {p \in DOMAIN e : p \notin DOMAIN d \/ e[p] # d[p]}

GeneratesWithin ==
    /\ InWorkingDirectory(lastCall'[1].config.TargetDir)
    /\ \A p \in Created(disk, disk') :
           /\ Within(Resolve(lastCall'[1].config.TargetDir), p)
           /\ ~\E i \in 1..Len(p) : p[i] \in {S_slash, <<46, 46>>}
    /\ \A i \in 1..Len(lastCall'[1].log) :
           Within(Resolve(lastCall'[1].config.TargetDir),
                  Resolve(lastCall'[1].log[i].target))
    /\ \A p \in DOMAIN disk : p \in DOMAIN disk'

\* C23: whatever name was entered, every configuration handed to the
\* generator has as target directory the working directory itself or a direct
\* child of it named in [A-Za-z0-9_-], and everything a generation creates or
\* writes lies inside that target directory; nothing outside it is touched.
C23_NoWriteOutside ==
    /\ [][calls' = calls + 1 => GeneratesWithin]_vars
    /\ [][calls' = calls => disk' = disk]_vars

C23_Witness ==
    /\ lastCall # <<>>
    /\ ~lastCall[1].config.UseCurrentDir
    /\ Len(projectName) = MaxNameLen
    /\ \E p \in DOMAIN disk : Len(p) >= 2 /\ p[1] = projectName /\ ~disk[p].dir


(***************************************************************************)
(* C24: when the generator is invoked                                      *)
(***************************************************************************)
\* a step that processes a confirm in Summary (updateStage4 ignores every
\* other key, and a quit key ends the session)
ConfirmInSummary == currentStage = Stage4Summary /\ cmd' # "Quit"

\* the generator is invoked by a step only when the step processes a confirm
\* in Summary, then once, and never after an invocation has succeeded
InvokedOnlyOnConfirm ==
    calls' # calls =>
        /\ ConfirmInSummary
        /\ calls' = calls + 1
        /\ ~generationSuccess
        /\ lastCall' # <<>>
        /\ (lastCall'[1].err = NilErr <=> generationSuccess')

NeverAfterSuccess == generationSuccess => calls' = calls

GenerationSucceeded == lastCall # <<>> /\ lastCall[1].err = NilErr

\* C25: GenerationSuccess() is false initially and, in every reachable state,
\* true if and only if the stage is Success, if and only if a generation
\* invoked from Summary returned success; it is false after a cancel and
\* after any number of failed generations.
C25_ExitSignal ==
    /\ (calls = 0 => ~GenerationSuccess)
    /\ (GenerationSuccess <=> currentStage = Stage5Success)
    /\ (GenerationSuccess <=> GenerationSucceeded)
    /\ (quitting /\ currentStage # Stage5Success => ~GenerationSuccess)
    /\ (calls > 0 /\ ~GenerationSucceeded => ~GenerationSuccess)

\* a session cancelled after MaxCalls failed generations
C25_Witness ==
    /\ calls = MaxCalls
    /\ lastCall[1].err # NilErr
    /\ quitting
    /\ currentStage = Stage4Summary
    /\ ~GenerationSuccess


(***************************************************************************)
(* C26: a cancelled session of the three-stage wizard                      *)
(***************************************************************************)
\* the session ended through q or ctrl+c
EndedByQuitKey ==
    /\ selectionCmd = "Quit"
    /\ selectionMsg # <<>>
    /\ IsQuitKey(selectionMsg[1].msg)

\* C26: whenever a session of the three-stage wizard ends through a quit key
\* (q or ctrl+c), at any stage, GetConfiguration().ProjectType is empty, and
\* main prints "No selection made" and no project configuration.
C26_QuitReportsNoSelection ==
    EndedByQuitKey =>
        /\ GetConfiguration(selection).ProjectType = <<>>
        /\ (printed # <<>> => printed[1].heading = "No selection made")

(***************************************************************************)
(* C27: the space key in the feature selection                             *)
(***************************************************************************)
\* the step is an Update of the three-stage wizard for the key named key
Handles(key) ==
    /\ SelectionRunning
    /\ selectionMsg' # <<>>
    /\ KeyString(selectionMsg'[1].msg) = key

\* the feature under the feature cursor
UnderCursor(m) == m.availableFeatures[m.featureCursor + 1]

FlipsOnlyUnderCursor ==
    /\ DOMAIN selection'.selectedFeatures = DOMAIN selection.selectedFeatures
    /\ \A f \in DOMAIN selection.selectedFeatures :
           selection'.selectedFeatures[f] =
               IF f = UnderCursor(selection) THEN ~selection.selectedFeatures[f]
               ELSE selection.selectedFeatures[f]
    /\ selection'.featureCursor = selection.featureCursor
    /\ selection'.currentStage = Stage2Features
    /\ selection'.selectedProjectType = selection.selectedProjectType
    /\ ~selection'.quitting
    /\ selectionCmd' = "nil"

\* the key handled before this step was a space too, in the feature selection
AfterSpace ==
    /\ selectionMsg # <<>>
    /\ KeyString(selectionMsg[1].msg) = S_space
    /\ selectionMsg[1].model.currentStage = Stage2Features

\* C27: in the feature selection of the three-stage wizard a space flips the
\* flag of exactly the feature under the feature cursor and leaves every other
\* flag, the cursor and the stage unchanged; the second of two consecutive
\* spaces restores the selection the first one was given.
C27_SpaceToggles ==
    [][(Handles(S_space) /\ selection.currentStage = Stage2Features) =>
           /\ FlipsOnlyUnderCursor
           /\ (AfterSpace => selection' = selectionMsg[1].model)]_vars

\* two spaces on "PostgreSQL integration", "Docker support" being selected
C27_Witness ==
    /\ selectionMsg # <<>>
    /\ KeyString(selectionMsg[1].msg) = S_space
    /\ selection.currentStage = Stage2Features
    /\ selection.featureCursor = 2
    /\ selectionMsg[1].model.selectedFeatures[S_PostgreSQL]
    /\ ~selection.selectedFeatures[S_PostgreSQL]
    /\ selection.selectedFeatures[S_Docker]

(***************************************************************************)
(* C28: GetConfiguration                                                   *)
(***************************************************************************)
\* the position of feature f in the list of available features
FeatureIndex(m, f) ==
    CHOOSE k \in 1..Len(m.availableFeatures) : m.availableFeatures[k] = f

\* list is exactly the features of m whose flag is true, in the order of
\* availableFeatures
FlaggedInOrder(m, list) ==
    /\ \A i \in 1..Len(list) :
           /\ list[i] \in DOMAIN m.selectedFeatures
           /\ m.selectedFeatures[list[i]]
    /\ \A f \in DOMAIN m.selectedFeatures :
           m.selectedFeatures[f] => \E i \in 1..Len(list) : list[i] = f
    /\ \A i, j \in 1..Len(list) :
           i < j => FeatureIndex(m, list[i]) < FeatureIndex(m, list[j])

\* C28: after any sequence of events of the three-stage wizard,
\* GetConfiguration returns the selected project type as ProjectType and, as
\* Features, exactly the features whose flag is true, in the order of
\* availableFeatures (the empty list when none is selected).
C28_ConfigurationOfSelection ==
    /\ GetConfiguration(selection).ProjectType = selection.selectedProjectType
    /\ FlaggedInOrder(selection, GetConfiguration(selection).Features)
    /\ ((\A f \in DOMAIN selection.selectedFeatures : ~selection.selectedFeatures[f])
           => GetConfiguration(selection).Features = <<>>)

\* "CLI Tool" with "Docker support" and "Authentication (JWT)", confirmed
C28_Witness ==
    /\ selection.currentStage = Stage3Summary
    /\ selectionCmd = "Quit"
    /\ GetConfiguration(selection) =
           [ProjectType |-> S_CLITool, Features |-> <<S_Docker, S_Authentication>>]
    /\ printed # <<>>
    /\ printed[1].features = S_Docker \o S_comma \o S_Authentication


(***************************************************************************)
(* C29: the input cursor                                                   *)
(***************************************************************************)
LeftKey == [Type |-> "KeyLeft", Runes |-> <<>>]
RightKey == [Type |-> "KeyRight", Runes |-> <<>>]
BackspaceKey == [Type |-> "KeyBackspace", Runes |-> <<>>]

OptionAt(options, cursor) == options[cursor + 1]

ConfirmKey == [Type |-> "KeyEnter", Runes |-> <<>>]

\* C30: a confirm in the application type stage stores the option under the
\* type cursor and moves to the package stage; a confirm in the package stage
\* stores the option under the package cursor and moves to Summary; in every
\* later state the stored value is the option under the cursor, which no
\* longer moves.
C30_SelectionAtCursor ==
    /\ (currentStage = Stage2AppType /\ Running) =>
           /\ ENABLED Update(ConfirmKey)
           /\ ~ENABLED (Update(ConfirmKey)
                        /\ ~(/\ selectedAppType' = OptionAt(appTypes, appTypeCursor)
                             /\ appTypeCursor' = appTypeCursor
                             /\ currentStage' = Stage3Package))
    /\ (currentStage = Stage3Package /\ Running) =>
           /\ ENABLED Update(ConfirmKey)
           /\ ~ENABLED (Update(ConfirmKey)
                        /\ ~(/\ selectedPackage' = OptionAt(packages, packageCursor)
                             /\ packageCursor' = packageCursor
                             /\ currentStage' = Stage4Summary))
    /\ (currentStage >= Stage3Package =>
           selectedAppType = OptionAt(appTypes, appTypeCursor))
    /\ (currentStage >= Stage4Summary =>
           selectedPackage = OptionAt(packages, packageCursor))

\* the second of two application types and the second of two packages were
\* confirmed, and a generation was attempted
C30_Witness ==
    /\ currentStage >= Stage4Summary
    /\ calls > 0
    /\ Len(appTypes) = 2 /\ appTypeCursor = 1 /\ selectedAppType = appTypes[2]
    /\ Len(packages) = 2 /\ packageCursor = 1 /\ selectedPackage = packages[2]


(***************************************************************************)
(* C31: the finalized values                                               *)
(***************************************************************************)
\* a finalized value that is set keeps its value
KeepsFinalized ==
    /\ (projectName # <<>> => projectName' = projectName)
    /\ (selectedAppType # <<>> => selectedAppType' = selectedAppType)
    /\ (selectedPackage # <<>> => selectedPackage' = selectedPackage)

\* C31: the project name is empty in the name input stage, the selected
\* application type is empty up to the type stage and the selected package is
\* empty up to the package stage; once its stage was confirmed each of them
\* is non-empty and keeps its value in every later state of the session.
C31_FinalizedValues ==
    /\ [](/\ (projectName = <<>> <=> currentStage = Stage1ProjectName)
          /\ (selectedAppType = <<>> <=> currentStage <= Stage2AppType)
          /\ (selectedPackage = <<>> <=> currentStage <= Stage3Package))
    /\ [][KeepsFinalized]_vars

\* all three values are set, and the session went on to a failed generation
C31_Witness ==
    /\ currentStage = Stage4Summary
    /\ Len(projectName) = 2
    /\ selectedAppType = S_WebAPI
    /\ selectedPackage = S_stdlib
    /\ calls = 1
    /\ generationError # NilErr


(***************************************************************************)
(* C32: the order of the traversal                                         *)
(***************************************************************************)
\* path a comes before path b, element by element (a directory comes
\* before what it contains)
RECURSIVE ElemsLess(_, _)
ElemsLess(a, b) ==
    IF b = <<>> THEN FALSE
    ELSE IF a = <<>> THEN TRUE
    ELSE IF Head(a) # Head(b) THEN StrLess(Head(a), Head(b))
    ELSE ElemsLess(Tail(a), Tail(b))

\* the call handled the first entries of the list, one after the other
VisitedInOrder(call, entries) ==
    /\ Len(BodyLog(call)) <= Len(entries)
    /\ \A i \in 1..Len(BodyLog(call)) :
           /\ BodyLog(call)[i].dir = entries[i].dir
           /\ BodyLog(call)[i].target = EntryTarget(call.config, entries[i])
    /\ call.err = NilErr => Len(BodyLog(call)) = Len(entries)

\* every directory of the list comes before the entries it contains
DirectoryFirst(entries) ==
    \A i, j \in 1..Len(entries) :
        (/\ entries[i].dir
         /\ Within(SplitPath(entries[i].path, <<>>), SplitPath(entries[j].path, <<>>))
         /\ i # j) => i < j

\* what one run did is the beginning of what the other did
SameSequence(a, b) ==
    \A i \in 1..Len(a) : i <= Len(b) => a[i] = b[i]

\* a call of Generate that reached the traversal of the template set
Traversed ==
    /\ calls' = calls + 1
    /\ ReachedTraversal(templateFS, lastCall'[1])

\* C32 (as claimed): Generate visits the entries of the template set in the
\* lexical order of their paths (the path strings compared byte by byte), a
\* directory before the entries it contains, and a second run with the same
\* template set and config performs the same sequence of directory creations
\* and file writes.
C32_PathStringOrder ==
    [][Traversed =>
           /\ VisitedInOrder(lastCall'[1], Entries(templateFS, request))
           /\ DirectoryFirst(Entries(templateFS, request))
           /\ \A i, j \in 1..Len(Entries(templateFS, request)) :
                  i < j => StrLess(Entries(templateFS, request)[i].path,
                                   Entries(templateFS, request)[j].path)
           /\ (lastCall # <<>> => SameSequence(lastCall[1].log, lastCall'[1].log))]_vars

\* C32 (amended): the order is lexical element by element: the entries of each
\* directory in the byte order of their names, a directory immediately
\* followed by the entries it contains.
C32_PathElementOrder ==
    [][Traversed =>
           /\ VisitedInOrder(lastCall'[1], Entries(templateFS, request))
           /\ DirectoryFirst(Entries(templateFS, request))
           /\ \A i, j \in 1..Len(Entries(templateFS, request)) :
                  i < j => ElemsLess(SplitPath(Entries(templateFS, request)[i].path, <<>>),
                                     SplitPath(Entries(templateFS, request)[j].path, <<>>))
           /\ (lastCall # <<>> => SameSequence(lastCall[1].log, lastCall'[1].log))]_vars

\* two complete runs over cmd, cmd/main.go, cmd.txt
C32_Witness ==
    /\ templateFS = SiblingTemplates
    /\ calls = 2
    /\ lastCall[1].err = NilErr
    /\ Len(BodyLog(lastCall[1])) = 3
    /\ BodyLog(lastCall[1])[2].target = EntryTarget(request, [path |-> S_cmd \o S_slash \o S_main_go, dir |-> FALSE])
    /\ BodyLog(lastCall[1])[3].target = EntryTarget(request, [path |-> S_cmd \o <<46, 116, 120, 116>>, dir |-> FALSE])


(***************************************************************************)
(* C33: events processed after the termination                             *)
(***************************************************************************)
\* C33: once quitting is true it stays true, and an event processed
\* afterwards (a confirm queued behind a cancel key in Summary, for one)
\* changes no part of the model and does not invoke the generator.
C33_TerminatedIsFinal ==
    [][quitting =>
           /\ quitting'
           /\ modelVars' = modelVars
           /\ calls' = calls
           /\ disk' = disk]_vars


(***************************************************************************)
(* C34: the error held in Summary and Success                              *)
(***************************************************************************)
\* C34: in Summary and in Success generationError is nil or the error the
\* most recent call of the generator returned; it is nil when Summary is
\* entered (no generation was attempted yet), and nil in Success.
C34_ErrorOfLastGeneration ==
    /\ (currentStage >= Stage4Summary =>
           \/ generationError = NilErr
           \/ lastCall # <<>> /\ generationError = lastCall[1].err)
    /\ (currentStage = Stage4Summary /\ calls = 0 => generationError = NilErr)
    /\ (currentStage = Stage5Success => generationError = NilErr)


(***************************************************************************)
(* C35: createDirectory on a path that is a regular file                   *)
(***************************************************************************)
\* C35: createDirectory returns nil only if a directory exists at the path
\* when it returns; on a path that exists as a regular file it returns an
\* error, so that Generate fails at the creation of the directory and not at
\* a later write of a file.
C35_DirectoryOrError ==
    /\ [](\A q \in DOMAIN disk :
            ~disk[q].dir =>
                createDirectory(StartGeneration(disk), JoinElems(q), 0).err # NilErr)
    /\ [][calls' = calls + 1 =>
             \A i \in 1..Len(lastCall'[1].log) :
                 lastCall'[1].log[i].dir =>
                     IsDirAt(disk', Resolve(lastCall'[1].log[i].target))]_vars


(***************************************************************************)
(* C36: one output file for each file of the template set                  *)
(***************************************************************************)
\* the bytes Generate is to leave for the source file q of the set
ExpectedOutput(tfs, config, q) ==
    IF HasSuffix(RelPath(q), S_tmpl) THEN processTemplate(tfs[q].data, config).out
    ELSE tfs[q].data

\* C36: after a successful Generate every file of the template set has its
\* own output file: a plain file p is at targetDirectory/p with the source's
\* bytes, a file p.tmpl is at targetDirectory/p with the substituted content,
\* and no two files of the set were written to the same path.
C36_OwnOutputFile ==
    [][(calls' = calls + 1 /\ lastCall'[1].err = NilErr) =>
         /\ \A q \in SetFiles(templateFS, request) :
                /\ Resolve(TargetOf(request, RelPath(q))) \in DOMAIN disk'
                /\ disk'[Resolve(TargetOf(request, RelPath(q)))]
                       = FileEntry(ExpectedOutput(templateFS, request, q))
         /\ \A q1, q2 \in SetFiles(templateFS, request) :
                q1 # q2 => Resolve(TargetOf(request, RelPath(q1)))
                               # Resolve(TargetOf(request, RelPath(q2)))]_vars


(***************************************************************************)
(* C37: the characters of the names handed to Generate                     *)
(***************************************************************************)
\* every byte of name is a letter, a digit, "-" or "_"
InPolicy(name) == \A i \in 1..Len(name) : name[i] \in PolicyBytes

\* C37: the ProjectName and the ModuleName of every ProjectConfig handed to
\* Generate consist of letters, digits, "-" and "_" only, also when the name
\* was entered as "." and is the base name of the working directory.
C37_NamesInPolicy ==
    lastCall # <<>> =>
        /\ InPolicy(lastCall[1].config.ProjectName)
        /\ InPolicy(lastCall[1].config.ModuleName)


(***************************************************************************)
(* C38: Generate twice                                                     *)
(***************************************************************************)
\* the step is a call of Generate that follows a call that returned nil
SecondGeneration ==
    /\ calls' = calls + 1
    /\ lastCall # <<>>
    /\ lastCall[1].err = NilErr

\* C38: Generate is idempotent: after a call that returned nil, a second call
\* with the same config and template set returns nil as well (unless a
\* system call fails), writing over the files that exist, and leaves the
\* files and their contents exactly as the first call left them.
C38_GenerateIdempotent ==
    [][SecondGeneration =>
         /\ Generate(templateFS, request, disk, 0).err = NilErr
         /\ lastCall'[1].err = NilErr =>
                /\ disk' = disk
                /\ lastCall'[1].log = lastCall[1].log]_vars

\* the second Generate of the embedded set into ./demo/ returned nil with the
\* files of the first in place
C38_Witness ==
    /\ calls = 2
    /\ lastCall[1].err = NilErr
    /\ lastCall[1].config = DemoConfig
    /\ templateFS = EmbeddedTemplates
    /\ Generate(templateFS, request, disk, 0).disk = disk
    /\ <<S_demo, S_cmd, S_main_go>> \in DOMAIN disk
    /\ disk[<<S_demo, S_go_mod>>] = FileEntry(<<109, 111, 100, 117, 108, 101, 32>>
                                              \o S_demo \o <<10>>)


(***************************************************************************)
(* C39: the value Update of the three-stage wizard was called on           *)
(***************************************************************************)
\* C39: Update of the three-stage wizard has value semantics: for every
\* stage and message, the model it was called on is after the call what it
\* was before, its feature flags after a space included.
C39_ReceiverUnchanged ==
    selectionMsg # <<>> => selectionMsg[1].receiver = selectionMsg[1].model


(***************************************************************************)
(* C40: the cursor marker of the name input                                *)
(***************************************************************************)
\* the input line renderStage1 returns for m
InputLine(m) == renderStage1(m).s.body[1]

\* "> ", then value with one "|" after its first cursor characters
Marked(value, cursor) ==
    <<62, 32>> \o SubSeq(value, 1, cursor) \o <<124>>
               \o SubSeq(value, cursor + 1, Len(value))

\* C40: for every buffer and every cursor from 0 to the buffer's length, the
\* input line of the name screen has exactly one marker "|", placed after
\* exactly cursor characters of the buffer, so that two cursor positions in
\* the same buffer never give the same line.
C40_CursorMarker ==
    currentStage = Stage1ProjectName =>
        /\ InputLine(Receiver) = Marked(inputValue, inputCursor)
        /\ \A c \in 0..Len(inputValue) :
               c # inputCursor =>
                   InputLine([Receiver EXCEPT !.inputCursor = c]) # InputLine(Receiver)

====
